---- MODULE Spec2Model ----
(***************************************************************************)
(* State machine of the MicroPython emulator core:                         *)
(*   - the State Store and Event Channel (.extension/emulator/mock/state.py)*)
(*   - the Pin, I2C, Timer and UART facades                                *)
(*     (.extension/emulator/mock/micropython/machine.py) and NeoPixel      *)
(*     (.extension/emulator/mock/micropython/neopixel.py)                  *)
(*   - the script host entry point (.extension/emulator/mock/runner.py)    *)
(*                                                                         *)
(* Python dicts are functions whose DOMAIN is the set of keys present.     *)
(* An Optional[...] argument is <<>> for None and <<v>> for the value v.   *)
(* Wall-clock time is counted in ticks, TicksPerMs ticks to a millisecond. *)
(***************************************************************************)
EXTENDS Integers, Sequences, FiniteSets, TLC

\* ---------------------------------------------------------------- bounds
TicksPerMs == 2
MaxTicks == 2
MaxOps == 3
MaxBytes == 2
MaxPolls == 2
MaxUartOps == 6
MaxPwmOps == 4
MaxAdcOps == 4

\* ------------------------------------------------------ program constants
EVENT_PREFIX == "__EMU__"
_PIN_EMIT_THROTTLE_MS == 1
FallbackDevices == <<104, 60, 118, 39>>

\* Pin mode constants of the facade and their names
Pin_IN == 0
Pin_OUT == 1
Pin_PULL_UP == 2
Pin_PULL_DOWN == 3
Pin_IRQ_RISING == 1
Pin_IRQ_FALLING == 2
Timer_ONE_SHOT == 0
Timer_PERIODIC == 1
_MODE_NAMES == [m \in {Pin_IN, Pin_OUT, Pin_PULL_UP, Pin_PULL_DOWN} |->
                  CASE m = Pin_IN -> "IN" [] m = Pin_OUT -> "OUT"
                    [] m = Pin_PULL_UP -> "PULL_UP" [] OTHER -> "PULL_DOWN"]

\* ------------------------------------------------------------ input sets
None == <<>>
Some(v) == <<v>>
Ids == {"25", "LED"}
ModeNames == {"IN", "OUT", "PULL_UP", "PULL_DOWN"}
PinObjs == {"a", "b"}
Reporters == {"collect", "broken", "emit"}
Buses == {0, 1}
Addrs == {39, 104}
\* the 7-bit addresses read from: the lowest, a device, the highest
ProbeAddrs == {0, 104, 127}
MemAddrs == {None, Some(0), Some(117), Some(16)}
\* byte strings tried as configured responses: 0xAB 0xAC ... of every
\* length up to MaxBytes, and a single zero byte
Pattern(k) == [i \in 1..k |-> 170 + i]
Datas == {Pattern(k) : k \in 0..MaxBytes} \cup {<<0>>}
\* the clock starts well past the throttle window (time.time() is epoch based)
Epoch == 2 * TicksPerMs * _PIN_EMIT_THROTTLE_MS

VARIABLES
  _reporters,         \* list of registered observer callbacks
  _pins,              \* dict identifier -> PinState
  _adc_values,        \* dict pin id -> forced reading
  _i2c_devices,       \* dict bus id -> list of addresses
  _i2c_responses,     \* dict composite key -> bytes
  _i2c_auto_respond,  \* bool
  _last_pin_emit,     \* dict identifier -> time of last pin_update emission
  stdout,             \* lines printed to standard output
  received,           \* per observer: the events it was called with
  nemit,              \* number of events created so far (history)
  pipe,               \* standard output: "open", or "closed" by its reader
  fired,              \* the calls made of irq handlers and timer callbacks
  now,                \* wall clock, in ticks
  pin,                \* Pin facade objects of the script: name -> fields
  pc,                 \* position of runner.main
  nops,               \* number of operations invoked so far (history)
  call,               \* the last operation invoked and its result (history)
  hist,               \* per identifier: time and outcome of each update_pin
                      \* call since the last reset (history)
  scen,               \* progress of the script Pin("25", OUT); value();
                      \* value(1); toggle() (history)
  wrote,              \* per identifier: the last value written through a
                      \* Pin object, if any (history)
  i2c,                \* I2C facade objects of the script: name -> fields
  poll,               \* position of the loop `while not i2c.scan(): pass`
  timer,              \* Timer facade objects of the script: name -> fields
  uart,               \* UART facade objects of the script: name -> fields
  _loopback_enabled,  \* the class attribute UART._loopback_enabled
  io,                 \* per UART object: all bytes written to it, all bytes
                      \* its reads returned, and whether every write so far
                      \* was made with loopback enabled (history)
  pwm,                \* PWM facade objects of the script: name -> fields
  adc,                \* ADC facade objects of the script: name -> fields
  wait                \* position of the loop that sleeps until the timer
                      \* callback has run often enough

storeVars == <<_reporters, _pins, _adc_values, _i2c_devices, _i2c_responses,
               _i2c_auto_respond, _last_pin_emit>>
chanVars == <<stdout, received, nemit, pipe, fired>>
histVars == <<nops, call, hist>>
devVars == <<i2c, poll, timer, uart, _loopback_enabled, io>>
periVars == <<pwm, adc, wait>>
vars == <<storeVars, chanVars, now, pin, pc, histVars, scen, wrote, devVars,
          periVars>>

\* ------------------------------------------------------------ dict helpers
DictSet(d, k, v) == [x \in (DOMAIN d) \cup {k} |-> IF x = k THEN v ELSE d[x]]
DictDel(d, k) == [x \in (DOMAIN d) \ {k} |-> d[x]]
DictGet(d, k, dflt) == IF k \in DOMAIN d THEN d[k] ELSE dflt
Truthy(opt) == opt # None /\ opt[1] # 0

\* the store and channel as one value, threaded through the operations;
\* raised is the exception propagating out of the code run so far ("" for
\* none)
World == [_reporters |-> _reporters, _pins |-> _pins,
          _adc_values |-> _adc_values, _i2c_devices |-> _i2c_devices,
          _i2c_responses |-> _i2c_responses,
          _i2c_auto_respond |-> _i2c_auto_respond,
          _last_pin_emit |-> _last_pin_emit,
          stdout |-> stdout, received |-> received, nemit |-> nemit,
          pipe |-> pipe, fired |-> fired, raised |-> ""]

Commit(w) ==
  /\ _reporters' = w._reporters
  /\ _pins' = w._pins
  /\ _adc_values' = w._adc_values
  /\ _i2c_devices' = w._i2c_devices
  /\ _i2c_responses' = w._i2c_responses
  /\ _i2c_auto_respond' = w._i2c_auto_respond
  /\ _last_pin_emit' = w._last_pin_emit
  /\ stdout' = w.stdout
  /\ received' = w.received
  /\ nemit' = w.nemit
  /\ pipe' = w.pipe
  /\ fired' = w.fired

\* ---------------------------------------------------------- Event Channel
\* print(f"{EVENT_PREFIX}{json.dumps(event)}", flush=True): one line
Line(event, id) == [prefix |-> EVENT_PREFIX, json |-> event, id |-> id]

\* json.dumps raises TypeError for a payload holding a value that is not
\* JSON (bytes, a set, an object); such a value is carried in a field "raw"
Serializable(event) == "raw" \notin DOMAIN event

\* print(f"{EVENT_PREFIX}{json.dumps(event)}", flush=True)
print_line(w, event, id) ==
  IF ~Serializable(event) THEN [w EXCEPT !.raised = "TypeError"]
  ELSE IF w.pipe = "closed" THEN [w EXCEPT !.raised = "BrokenPipeError"]
  ELSE [w EXCEPT !.stdout = Append(@, Line(event, id))]

\* one observer callback: "emit" is runner.emit (prints the line again),
\* "collect" stores the event, "broken" raises an Exception
Reporter(w, r, event, id) ==
  LET got == [w EXCEPT !.received[r] = Append(@, [ev |-> event, id |-> id])]
  IN CASE r = "emit" -> print_line(got, event, id)
       [] r = "broken" -> [got EXCEPT !.raised = "Exception"]
       [] OTHER -> got

\* the loop over list(_reporters) stopping at the first observer that raises
RECURSIVE Deliver_until_raise(_, _, _, _)
Deliver_until_raise(w, rs, event, id) ==
  IF rs = <<>> \/ w.raised # "" THEN w
  ELSE Deliver_until_raise(Reporter(w, Head(rs), event, id), Tail(rs),
                           event, id)

\* for reporter in list(_reporters): try: reporter(event)
\*                                   except Exception: continue
RECURSIVE Deliver(_, _, _, _)
Deliver(w, rs, event, id) ==
  IF rs = <<>> THEN w
  ELSE LET r == Reporter(w, Head(rs), event, id)
       IN Deliver([r EXCEPT !.raised = ""], Tail(rs), event, id)

\* _emit writing its line ahead of everything already on the stream
_emit_prepend(w, event) ==
  LET id == w.nemit + 1
      printed == [w EXCEPT !.stdout = <<Line(event, id)>> \o @,
                           !.nemit = id]
  IN Deliver(printed, w._reporters, event, id)

\* the print is not guarded: what it raises leaves _emit before any
\* observer is called
_emit(w, event) ==
  LET id == w.nemit + 1
      printed == print_line(w, event, id)
  IN IF printed.raised # "" THEN printed
     ELSE Deliver([printed EXCEPT !.nemit = id], w._reporters, event, id)

\* runner.emit called directly by runner.main
emit(w, event) ==
  LET id == w.nemit + 1
      printed == print_line(w, event, id)
  IN IF printed.raised # "" THEN printed ELSE [printed EXCEPT !.nemit = id]

\* ------------------------------------------------------------ State Store
PinState(identifier, mode, value) ==
  [identifier |-> identifier, mode |-> mode, value |-> value]

InList(x, s) == \E i \in DOMAIN s : s[i] = x

set_reporter(w, callback) ==
  IF InList(callback, w._reporters) THEN w
  ELSE [w EXCEPT !._reporters = Append(@, callback)]

clear_reporters(w) == [w EXCEPT !._reporters = <<>>]

\* reset with _last_pin_emit.clear() forgotten
reset_keeps_ledger(w) ==
  _emit([w EXCEPT !._pins = <<>>, !._adc_values = <<>>,
                  !._i2c_devices = <<>>, !._i2c_responses = <<>>,
                  !._i2c_auto_respond = TRUE],
        [type |-> "reset"])

reset(w) ==
  _emit([w EXCEPT !._pins = <<>>, !._adc_values = <<>>,
                  !._i2c_devices = <<>>, !._i2c_responses = <<>>,
                  !._i2c_auto_respond = TRUE, !._last_pin_emit = <<>>],
        [type |-> "reset"])

\* register_pin sharing the throttle ledger of update_pin: no event for an
\* identifier that has an entry in it
register_pin_quiet(w, identifier, mode, initial) ==
  LET value == IF Truthy(initial) THEN 1 ELSE 0
      w1 == [w EXCEPT !._pins = DictSet(@, identifier,
                                        PinState(identifier, mode, value))]
  IN IF identifier \in DOMAIN w._last_pin_emit THEN w1
     ELSE _emit(w1, [type |-> "pin_register", pin |-> identifier,
                     mode |-> mode, value |-> value])

register_pin(w, identifier, mode, initial) ==
  LET value == IF Truthy(initial) THEN 1 ELSE 0
  IN _emit([w EXCEPT !._pins = DictSet(@, identifier,
                                       PinState(identifier, mode, value))],
           [type |-> "pin_register", pin |-> identifier, mode |-> mode,
            value |-> value])

\* update_pin with the ledger write forgotten: nothing is ever throttled
update_pin_no_ledger(w, identifier, value, mode, t) ==
  LET stored ==
        IF identifier \notin DOMAIN w._pins
          THEN PinState(identifier,
                        IF mode # None THEN mode[1] ELSE "OUT", value)
          ELSE [w._pins[identifier] EXCEPT
                  !.mode = IF mode # None THEN mode[1] ELSE @,
                  !.value = value]
      w1 == [w EXCEPT !._pins = DictSet(@, identifier, stored)]
      last_emit == DictGet(w._last_pin_emit, identifier, 0)
  IN IF _PIN_EMIT_THROTTLE_MS > 0
        /\ (t - last_emit) < _PIN_EMIT_THROTTLE_MS * TicksPerMs
       THEN w1
       ELSE _emit(w1, [type |-> "pin_update", pin |-> identifier,
                       value |-> value])

\* update_pin with the throttle test moved before the store: a throttled
\* call loses its value
update_pin_drop(w, identifier, value, mode, t) ==
  LET stored ==
        IF identifier \notin DOMAIN w._pins
          THEN PinState(identifier,
                        IF mode # None THEN mode[1] ELSE "OUT", value)
          ELSE [w._pins[identifier] EXCEPT
                  !.mode = IF mode # None THEN mode[1] ELSE @,
                  !.value = value]
      last_emit == DictGet(w._last_pin_emit, identifier, 0)
  IN IF _PIN_EMIT_THROTTLE_MS > 0
        /\ (t - last_emit) < _PIN_EMIT_THROTTLE_MS * TicksPerMs
       THEN w
       ELSE _emit([w EXCEPT !._pins = DictSet(@, identifier, stored),
                            !._last_pin_emit = DictSet(@, identifier, t)],
                  [type |-> "pin_update", pin |-> identifier,
                   value |-> value])

\* mode is None or Some(name); t is the value of time.time()*1000 read
update_pin(w, identifier, value, mode, t) ==
  LET stored ==
        IF identifier \notin DOMAIN w._pins
          THEN PinState(identifier,
                        IF mode # None THEN mode[1] ELSE "OUT", value)
          ELSE [w._pins[identifier] EXCEPT
                  !.mode = IF mode # None THEN mode[1] ELSE @,
                  !.value = value]
      w1 == [w EXCEPT !._pins = DictSet(@, identifier, stored)]
      last_emit == DictGet(w._last_pin_emit, identifier, 0)
      event == IF mode # None
                 THEN [type |-> "pin_update", pin |-> identifier,
                       value |-> value, mode |-> mode[1]]
                 ELSE [type |-> "pin_update", pin |-> identifier,
                       value |-> value]
  IN IF _PIN_EMIT_THROTTLE_MS > 0
        /\ (t - last_emit) < _PIN_EMIT_THROTTLE_MS * TicksPerMs
       THEN w1
       ELSE _emit([w1 EXCEPT !._last_pin_emit = DictSet(@, identifier, t)],
                  event)

get_pin_value(w, identifier) ==
  IF identifier \in DOMAIN w._pins THEN w._pins[identifier].value ELSE 0


\* ADC support
get_adc_value(w, pin_id) ==
  IF pin_id \in DOMAIN w._adc_values THEN Some(w._adc_values[pin_id])
  ELSE None

Min(a, b) == IF a < b THEN a ELSE b
Max(a, b) == IF a > b THEN a ELSE b

set_adc_value(w, pin_id, value) ==
  LET v == Max(0, Min(65535, value))
  IN _emit([w EXCEPT !._adc_values = DictSet(@, pin_id, v)],
           [type |-> "adc_set", pin |-> pin_id, value |-> v])

clear_adc_value(w, pin_id) ==
  IF pin_id \in DOMAIN w._adc_values
    THEN [w EXCEPT !._adc_values = DictDel(@, pin_id)]
    ELSE w

\* I2C support
\* get_i2c_devices falling back only for a bus that has no entry at all
get_i2c_devices_absent_only(w, bus_id) ==
  IF bus_id \notin DOMAIN w._i2c_devices /\ w._i2c_auto_respond
    THEN FallbackDevices
    ELSE DictGet(w._i2c_devices, bus_id, <<>>)

\* get_i2c_devices with the auto-respond test forgotten
get_i2c_devices_no_flag(w, bus_id) ==
  LET devices == DictGet(w._i2c_devices, bus_id, <<>>)
  IN IF devices = <<>> THEN FallbackDevices ELSE devices

get_i2c_devices(w, bus_id) ==
  LET devices == DictGet(w._i2c_devices, bus_id, <<>>)
  IN IF devices = <<>> /\ w._i2c_auto_respond THEN FallbackDevices
     ELSE devices

set_i2c_devices(w, bus_id, addresses) ==
  _emit([w EXCEPT !._i2c_devices = DictSet(@, bus_id, addresses)],
        [type |-> "i2c_devices_set", bus |-> bus_id,
         addresses |-> addresses])

register_i2c_device(w, bus_id, addr) ==
  LET had == DictGet(w._i2c_devices, bus_id, <<>>)
      has == IF InList(addr, had) THEN had ELSE Append(had, addr)
  IN _emit([w EXCEPT !._i2c_devices = DictSet(@, bus_id, has)],
           [type |-> "i2c_device_registered", bus |-> bus_id,
            addr |-> addr])

set_i2c_auto_respond(w, enabled) ==
  _emit([w EXCEPT !._i2c_auto_respond = enabled],
        [type |-> "i2c_auto_respond", enabled |-> enabled])

\* the key f"{bus_id}_{addr}_{memaddr}", or f"{bus_id}_{addr}" for None
I2cKey(bus_id, addr, memaddr) ==
  IF memaddr # None THEN <<bus_id, addr, memaddr[1]>> ELSE <<bus_id, addr>>

\* b'\x00' * k (empty for k <= 0), and response[:n] for n >= 0
Zeros(k) == [i \in 1..k |-> 0]
Take(b, n) == SubSeq(b, 1, Min(n, Len(b)))

\* get_i2c_response with the WHO_AM_I registers forgotten: the marker byte
\* for every memaddr
get_i2c_response_marker_only(w, bus_id, addr, nbytes, memaddr) ==
  LET key == I2cKey(bus_id, addr, memaddr)
      response ==
        IF key \in DOMAIN w._i2c_responses THEN w._i2c_responses[key]
        ELSE IF w._i2c_auto_respond THEN <<1>> \o Zeros(nbytes - 1)
        ELSE Zeros(nbytes)
      padded == IF Len(response) < nbytes
                  THEN response \o Zeros(nbytes - Len(response))
                  ELSE response
  IN Take(padded, nbytes)

\* get_i2c_response without the final response[:nbytes]
get_i2c_response_no_cut(w, bus_id, addr, nbytes, memaddr) ==
  LET key == I2cKey(bus_id, addr, memaddr)
      found == key \in DOMAIN w._i2c_responses
      response ==
        IF found THEN w._i2c_responses[key]
        ELSE IF w._i2c_auto_respond
          THEN IF memaddr = Some(117) \/ memaddr = Some(0)
                 THEN <<addr>> \o Zeros(nbytes - 1)
                 ELSE <<1>> \o Zeros(nbytes - 1)
          ELSE Zeros(nbytes)
  IN IF Len(response) < nbytes
       THEN response \o Zeros(nbytes - Len(response))
       ELSE response

get_i2c_response(w, bus_id, addr, nbytes, memaddr) ==
  LET key == I2cKey(bus_id, addr, memaddr)
      found == key \in DOMAIN w._i2c_responses
      response ==
        IF found THEN w._i2c_responses[key]
        ELSE IF w._i2c_auto_respond
          THEN IF memaddr = Some(117) \/ memaddr = Some(0)
                 THEN <<addr>> \o Zeros(nbytes - 1)
                 ELSE <<1>> \o Zeros(nbytes - 1)
          ELSE Zeros(nbytes)
      padded == IF Len(response) < nbytes
                  THEN response \o Zeros(nbytes - Len(response))
                  ELSE response
  IN Take(padded, nbytes)

\* bytes.hex(): two hexadecimal digits per byte
RECURSIVE Hex(_)
Hex(b) == IF b = <<>> THEN <<>>
          ELSE <<Head(b) \div 16, Head(b) % 16>> \o Hex(Tail(b))

set_i2c_response(w, bus_id, addr, data, memaddr) ==
  _emit([w EXCEPT !._i2c_responses =
                     DictSet(@, I2cKey(bus_id, addr, memaddr), data)],
        [type |-> "i2c_response_set", bus |-> bus_id, addr |-> addr,
         memaddr |-> memaddr, data |-> Hex(data)])

\* generic event emission: {"type": event_type, **data}
emit_event(w, event_type, data) ==
  _emit(w, data @@ [type |-> event_type])

\* ------------------------------------------------------------- Pin facade
\* Pin._mode_name: self._MODE_NAMES.get(self._mode, "OUT")
_mode_name(mode) ==
  IF mode \in DOMAIN _MODE_NAMES THEN _MODE_NAMES[mode] ELSE "OUT"

\* Pin.value(val) calling the irq handler of the object on a write, as the
\* hardware would on an edge
Pin_value_fires(w, self, val, t) ==
  IF val = None
    THEN LET current == get_pin_value(w, self._id)
         IN [w |-> update_pin(w, self._id, current, Some("IN"), t),
             ret |-> current, own |-> self._value]
    ELSE LET v == IF val[1] # 0 THEN 1 ELSE 0
             w1 == IF self._irq_handler = None THEN w
                   ELSE [w EXCEPT !.fired = Append(@, self._irq_handler[1])]
         IN [w |-> update_pin(w1, self._id, v, Some("OUT"), t),
             ret |-> v, own |-> v]

\* Pin.value(val) without the 1-if-val-else-0 normalisation
Pin_value_raw(w, self, val, t) ==
  IF val = None
    THEN LET current == get_pin_value(w, self._id)
         IN [w |-> update_pin(w, self._id, current, Some("IN"), t),
             ret |-> current, own |-> self._value]
    ELSE [w |-> update_pin(w, self._id, val[1], Some("OUT"), t),
          ret |-> val[1], own |-> val[1]]

\* Pin.value(val) at clock reading t; the result is the store and channel
\* afterwards (w), the value returned (ret) and the new self._value (own)
Pin_value(w, self, val, t) ==
  IF val = None
    THEN LET current == get_pin_value(w, self._id)
         IN [w |-> update_pin(w, self._id, current, Some("IN"), t),
             ret |-> current, own |-> self._value]
    ELSE LET v == IF val[1] # 0 THEN 1 ELSE 0
         IN [w |-> update_pin(w, self._id, v, Some("OUT"), t),
             ret |-> v, own |-> v]

\* Pin(id, mode, value=value): register, then value(value) when one is given
\* (t is the clock reading of that second step)
Pin_init(w, id, mode, value, t) ==
  LET self == [_id |-> id, _mode |-> mode, _value |-> 0,
               _irq_handler |-> None, _irq_trigger |-> 0]
      w1 == register_pin(w, id, _mode_name(mode),
                         IF value # None THEN value ELSE Some(0))
  IN IF value # None /\ w1.raised = ""
       THEN LET r == Pin_value(w1, self, value, t)
            IN [w |-> r.w, self |-> [self EXCEPT !._value = r.own]]
       ELSE [w |-> w1, self |-> self]

\* Pin.toggle(): self.value(0 if self.value() else 1); the read happens at
\* clock reading t1, the write at t2
Pin_toggle(w, self, t1, t2) ==
  LET r == Pin_value(w, self, None, t1)
  IN IF r.w.raised # "" THEN r
     ELSE Pin_value(r.w, self, Some(IF r.ret # 0 THEN 0 ELSE 1), t2)

\* Pin.irq(handler, trigger): both are stored on the object
Pin_irq(self, handler, trigger) ==
  [self EXCEPT !._irq_handler = handler, !._irq_trigger = trigger]

\* ----------------------------------------------------------- Timer facade
\* Timer(id)
Timer_new(id) ==
  [_id |-> id, _mode |-> Timer_PERIODIC, _freq |-> 0, _period |-> 0,
   _callback |-> None, _active |-> FALSE]

\* Timer.init(mode=, freq=, period=, callback=)
Timer_init(w, self, mode, freq, period, callback) ==
  [w |-> emit_event(w, "timer_init",
                    [id |-> self._id,
                     mode |-> IF mode = Timer_PERIODIC THEN "PERIODIC"
                              ELSE "ONE_SHOT",
                     freq |-> freq, period |-> period]),
   self |-> [self EXCEPT !._mode = mode, !._freq = freq, !._period = period,
                         !._callback = callback, !._active = TRUE]]

\* Timer.deinit()
Timer_deinit(w, self) ==
  [w |-> emit_event(w, "timer_deinit", [id |-> self._id]),
   self |-> [self EXCEPT !._active = FALSE, !._callback = None]]

\* ------------------------------------------------------------ UART facade
\* b[:n] keeps Cut(b, n) bytes of b, del b[:n] removes them
Cut(b, n) == IF n >= 0 THEN Min(n, Len(b)) ELSE Max(0, Len(b) + n)
Drop(b, k) == SubSeq(b, k + 1, Len(b))
\* bytearray.find(b'\n'): the 0-based index of the first 0x0A, or -1
Find(b) ==
  IF \E i \in DOMAIN b : b[i] = 10
    THEN (CHOOSE i \in DOMAIN b : b[i] = 10 /\ \A j \in 1..(i - 1) : b[j] # 10)
         - 1
    ELSE -1

\* UART(id) while the class attribute UART._loopback_enabled is cls
UART_init(w, id, cls) ==
  [w |-> emit_event(w, "uart_init",
                    [id |-> id, baudrate |-> 9600, bits |-> 8,
                     parity |-> None, stop |-> 1, tx |-> None, rx |-> None,
                     loopback |-> cls]),
   self |-> [_id |-> id, _baudrate |-> 9600, _tx |-> None, _rx |-> None,
             _rx_buffer |-> <<>>, _loopback |-> cls]]

UART_any(self) == Len(self._rx_buffer)

\* UART.read(nbytes) handing out the bytes without removing them
UART_read_peek(self, nbytes) ==
  LET k == IF nbytes = None THEN Len(self._rx_buffer)
           ELSE Cut(self._rx_buffer, nbytes[1])
      data == Take(self._rx_buffer, k)
  IN [self |-> self, ret |-> IF data # <<>> THEN Some(data) ELSE None]

\* UART.read(nbytes): the object afterwards and the bytes returned, if any
UART_read(self, nbytes) ==
  LET k == IF nbytes = None THEN Len(self._rx_buffer)
           ELSE Cut(self._rx_buffer, nbytes[1])
      data == Take(self._rx_buffer, k)
  IN [self |-> [self EXCEPT !._rx_buffer = Drop(@, k)],
      ret |-> IF data # <<>> THEN Some(data) ELSE None]

\* UART.readinto(buf, nbytes): also the buffer afterwards (buf)
UART_readinto(self, buf, nbytes) ==
  LET r == UART_read(self, IF Truthy(nbytes) THEN nbytes ELSE Some(Len(buf)))
  IN IF r.ret # None
       THEN [self |-> r.self, ret |-> Some(Len(r.ret[1])),
             buf |-> r.ret[1] \o Drop(buf, Min(Len(r.ret[1]), Len(buf)))]
       ELSE [self |-> r.self, ret |-> None, buf |-> buf]

UART_readline(self) ==
  LET idx == Find(self._rx_buffer)
  IN IF idx >= 0
       THEN [self |-> [self EXCEPT !._rx_buffer = Drop(@, idx + 1)],
             ret |-> Some(Take(self._rx_buffer, idx + 1))]
       ELSE [self |-> self, ret |-> None]

\* UART.write(buf) while the class attribute is cls
UART_write(w, self, buf, cls) ==
  LET w1 == emit_event(w, "uart_write",
                       [id |-> self._id, data |-> Hex(buf), tx |-> None])
  IN [w |-> w1,
      self |-> IF w1.raised = "" /\ (self._loopback \/ cls)
                 THEN [self EXCEPT !._rx_buffer = @ \o buf]
                 ELSE self,
      ret |-> Len(buf)]

\* ------------------------------------------------------------- I2C facade
\* I2C(id, scl=None, sda=None, freq=400000)
I2C_init(w, id) ==
  [w |-> emit_event(w, "i2c_init",
                    [id |-> id, scl |-> None, sda |-> None, freq |-> 400000]),
   self |-> [_id |-> id, _scl |-> None, _sda |-> None, _freq |-> 400000]]

\* I2C.scan(): the addresses found (ret), after the i2c_scan event
I2C_scan(w, self) ==
  LET devices == get_i2c_devices(w, self._id)
  IN [w |-> emit_event(w, "i2c_scan", [id |-> self._id, devices |-> devices]),
      ret |-> devices]

\* -------------------------------------------------------- NeoPixel facade
\* the functions the module state defines
StateNames == {"set_reporter", "clear_reporters", "reset", "register_pin",
               "update_pin", "get_pin_value", "snapshot", "get_adc_value",
               "set_adc_value", "clear_adc_value", "get_i2c_devices",
               "set_i2c_devices", "register_i2c_device",
               "set_i2c_auto_respond", "get_i2c_response",
               "set_i2c_response", "emit_event", "emit_pwm_update",
               "emit_neopixel_init", "emit_neopixel_write", "_emit"}

\* state.emit(type, data) as neopixel.py calls it: looking up an attribute
\* the module does not define raises AttributeError
state_emit(w, type, data) ==
  IF "emit" \in StateNames THEN emit_event(w, type, data)
  ELSE [w EXCEPT !.raised = "AttributeError"]

\* str(pin): Pin.__repr__
Pin_repr(self) ==
  <<"<Pin", self._id, _mode_name(self._mode), self._value, ">">>

\* NeoPixel(pin, n, bpp): the fields are set, then the init event is sent;
\* self is None when the constructor raises
NeoPixel_init(w, pin_obj, n, bpp) ==
  LET self == [pin |-> pin_obj, n |-> n, bpp |-> bpp, timing |-> 1,
               _pixels |-> [i \in 1..n |-> [c \in 1..bpp |-> 0]]]
      w1 == state_emit(w, "neopixel_init",
                       [pin |-> Pin_repr(pin_obj), n |-> n, bpp |-> bpp])
  IN [w |-> w1, self |-> IF w1.raised = "" THEN Some(self) ELSE None]

\* np[index] = value
NeoPixel_setitem(self, index, value) ==
  IF 0 <= index /\ index < self.n
    THEN IF Len(value) # self.bpp
           THEN [self |-> self, raised |-> "ValueError"]
           ELSE [self |-> [self EXCEPT !._pixels[index + 1] = value],
                 raised |-> ""]
    ELSE [self |-> self, raised |-> "IndexError"]

\* np.fill(color)
NeoPixel_fill(self, color) ==
  IF Len(color) # self.bpp
    THEN [self |-> self, raised |-> "ValueError"]
    ELSE [self |-> [self EXCEPT !._pixels = [i \in 1..self.n |-> color]],
          raised |-> ""]

\* np.write()
NeoPixel_write(w, self) ==
  state_emit(w, "neopixel_write",
             [pin |-> Pin_repr(self.pin), pixels |-> self._pixels])

\* the statements np = NeoPixel(pin, n); np[0] = first; np.fill(color);
\* np.write(), ended by the first one that raises; done is the number of
\* statements completed
NeoPixel_script(w, pin_obj, n, first, color) ==
  LET c == NeoPixel_init(w, pin_obj, n, 3)
  IN IF c.self = None
       THEN [w |-> c.w, done |-> 0]
       ELSE LET s1 == NeoPixel_setitem(c.self[1], 0, first)
            IN IF s1.raised # ""
                 THEN [w |-> [c.w EXCEPT !.raised = s1.raised], done |-> 1]
                 ELSE LET f == NeoPixel_fill(s1.self, color)
                      IN IF f.raised # ""
                           THEN [w |-> [c.w EXCEPT !.raised = f.raised],
                                 done |-> 2]
                           ELSE LET w2 == NeoPixel_write(c.w, f.self)
                                IN [w |-> w2,
                                    done |-> IF w2.raised = "" THEN 4 ELSE 3]

\* ------------------------------------------------------------ runner.main
\* up to the start of the script: a missing script ends the run at once;
\* otherwise the observers are replaced by runner.emit, the store is reset
\* and the start event is written
main_start(w, exists) ==
  IF ~exists
    THEN emit(w, [type |-> "error", message |-> "Script not found"])
    ELSE emit(reset(set_reporter(clear_reporters(w), "emit")),
              [type |-> "start", script |-> "script.py", board |-> "pico"])

\* exc.code of a SystemExit: None, <<"int", n>> or <<"str", s>>
IntCode(n) == <<"int", n>>
StrCode(s) == <<"str", s>>

\* Python truth value of exc.code
CodeTruthy(code) ==
  /\ code # None
  /\ code[1] = "int" => code[2] # 0
  /\ code[1] = "str" => code[2] # ""

\* the strings int() can parse, among those the model uses
Numerals == [s \in {"3"} |-> 3]

\* int(exc.code): the number, or None where int() raises ValueError
int_(code) ==
  IF code[1] = "int" THEN Some(code[2])
  ELSE IF code[2] \in DOMAIN Numerals THEN Some(Numerals[code[2]])
  ELSE None

\* int(exc.code) if exc.code else 0
ExitCode(code) == IF CodeTruthy(code) THEN int_(code) ELSE Some(0)

\* what main writes and returns once runpy.run_path has ended by `how`; an
\* exception raised inside the except clause leaves main (raised), and
\* sys.exit(main()) then ends the process with status 1
main_end(w, how, code) ==
  CASE how = "returned" ->
         [w |-> emit(w, [type |-> "complete", status |-> "ok"]), ret |-> 0]
    [] how = "SystemExit" ->
         IF ExitCode(code) = None
           THEN [w |-> [w EXCEPT !.raised = "ValueError"], ret |-> 1]
           ELSE [w |-> emit(w, [type |-> "exit", code |-> ExitCode(code)[1]]),
                 ret |-> ExitCode(code)[1]]
    [] how = "KeyboardInterrupt" ->
         [w |-> emit(w, [type |-> "exit", code |-> 130,
                         message |-> "Script interrupted by user"]),
          ret |-> 130]
    [] how = "ImportError" ->
         [w |-> emit(w, [type |-> "exception", message |-> "Import Error",
                         hint |-> "module", traceback |-> "tb"]),
          ret |-> 1]
    [] how = "SyntaxError" ->
         [w |-> emit(w, [type |-> "exception", message |-> "Syntax Error",
                         hint |-> "line", traceback |-> "tb"]),
          ret |-> 1]
    [] how = "FileNotFoundError" ->
         [w |-> emit(w, [type |-> "exception", message |-> "File Not Found",
                         hint |-> "path", traceback |-> "tb"]),
          ret |-> 1]
    [] OTHER ->
         [w |-> emit(w, [type |-> "exception",
                         message |-> "Unhandled exception during execution",
                         traceback |-> "tb"]),
          ret |-> 1]

\* ------------------------------------------------------------------ Init
Init ==
  /\ _reporters = <<>>
  /\ _pins = <<>>
  /\ _adc_values = <<>>
  /\ _i2c_devices = <<>>
  /\ _i2c_responses = <<>>
  /\ _i2c_auto_respond = TRUE
  /\ _last_pin_emit = <<>>
  /\ stdout = <<>>
  /\ received = [r \in Reporters |-> <<>>]
  /\ nemit = 0
  /\ pipe = "open"
  /\ fired = <<>>
  /\ now = Epoch
  /\ pin = <<>>
  /\ pc = "idle"
  /\ nops = 0
  /\ call = [op |-> "none"]
  /\ hist = [i \in Ids |-> <<>>]
  /\ scen = [stage |-> 0, p |-> ""]
  /\ wrote = [i \in Ids |-> None]
  /\ i2c = <<>>
  /\ poll = [stage |-> "idle"]
  /\ timer = <<>>
  /\ uart = <<>>
  /\ _loopback_enabled = TRUE
  /\ io = <<>>
  /\ pwm = <<>>
  /\ adc = <<>>
  /\ wait = [stage |-> "idle"]


Room == nops < MaxOps
Window == _PIN_EMIT_THROTTLE_MS * TicksPerMs

\* what an operation leaves behind for the properties to read
Called(op, w, rest) ==
  /\ nops' = nops + 1
  /\ call' = [op |-> op, n0 |-> nemit, len0 |-> Len(stdout),
              rcv0 |-> [r \in Reporters |-> Len(received[r])],
              t |-> now, new |-> w.nemit - nemit,
              raised |-> w.raised] @@ rest

\* an update_pin call for id at time t that created n events
Noted(h, id, t, n) == [h EXCEPT ![id] = Append(@, [t |-> t, n |-> n])]

\* time passes between two statements of the script
Tick ==
  /\ now < Epoch + MaxTicks
  /\ now' = now + 1
  /\ UNCHANGED <<storeVars, chanVars, pin, pc, histVars, scen, wrote,
                 devVars,
                 periVars>>

\* ------------------------------------------- direct calls of the store API
SetReporter(r) ==
  /\ Room
  /\ LET w == set_reporter(World, r)
     IN Commit(w) /\ Called("set_reporter", w, [callback |-> r])
  /\ UNCHANGED <<now, pin, pc, hist, scen, wrote, devVars,
                 periVars>>

ClearReporters ==
  /\ Room
  /\ LET w == clear_reporters(World)
     IN Commit(w) /\ Called("clear_reporters", w, <<>>)
  /\ UNCHANGED <<now, pin, pc, hist, scen, wrote, devVars,
                 periVars>>

Reset ==
  /\ Room
  /\ LET w == reset(World)
     IN Commit(w) /\ Called("reset", w, [before |-> World])
  /\ hist' = [i \in Ids |-> <<>>]
  /\ wrote' = [i \in Ids |-> None]
  /\ UNCHANGED <<now, pin, pc, scen, devVars,
                 periVars>>

RegisterPin(id, mode, initial) ==
  /\ Room
  /\ LET w == register_pin(World, id, mode, initial)
     IN Commit(w) /\ Called("register_pin", w,
                            [id |-> id, mode |-> mode, initial |-> initial,
                             had |-> IF id \in DOMAIN _pins
                                       THEN Some(_pins[id]) ELSE None])
  /\ UNCHANGED <<now, pin, pc, hist, scen, wrote, devVars,
                 periVars>>

UpdatePin(id, value, mode) ==
  /\ Room
  /\ LET w == update_pin(World, id, value, mode, now)
     IN /\ Commit(w)
        /\ Called("update_pin", w,
                  [id |-> id, value |-> value, mode |-> mode,
                   known |-> id \in DOMAIN _pins])
        /\ hist' = Noted(hist, id, now, w.nemit - nemit)
  /\ UNCHANGED <<now, pin, pc, scen, wrote, devVars,
                 periVars>>

SetAdcValue(id, value) ==
  /\ Room
  /\ LET w == set_adc_value(World, id, value)
     IN Commit(w) /\ Called("set_adc_value", w, [id |-> id, value |-> value])
  /\ UNCHANGED <<now, pin, pc, hist, scen, wrote, devVars,
                 periVars>>

ClearAdcValue(id) ==
  /\ Room
  /\ LET w == clear_adc_value(World, id)
     IN Commit(w) /\ Called("clear_adc_value", w, [id |-> id])
  /\ UNCHANGED <<now, pin, pc, hist, scen, wrote, devVars,
                 periVars>>

SetI2cDevices(bus, addresses) ==
  /\ Room
  /\ LET w == set_i2c_devices(World, bus, addresses)
     IN Commit(w) /\ Called("set_i2c_devices", w,
                            [bus |-> bus, addresses |-> addresses])
  /\ UNCHANGED <<now, pin, pc, hist, scen, wrote, devVars,
                 periVars>>

RegisterI2cDevice(bus, addr) ==
  /\ Room
  /\ LET w == register_i2c_device(World, bus, addr)
     IN Commit(w) /\ Called("register_i2c_device", w,
                            [bus |-> bus, addr |-> addr])
  /\ UNCHANGED <<now, pin, pc, hist, scen, wrote, devVars,
                 periVars>>

SetI2cAutoRespond(enabled) ==
  /\ Room
  /\ LET w == set_i2c_auto_respond(World, enabled)
     IN Commit(w) /\ Called("set_i2c_auto_respond", w, [enabled |-> enabled])
  /\ UNCHANGED <<now, pin, pc, hist, scen, wrote, devVars,
                 periVars>>

SetI2cResponse(bus, addr, data, memaddr) ==
  /\ Room
  /\ LET w == set_i2c_response(World, bus, addr, data, memaddr)
     IN Commit(w) /\ Called("set_i2c_response", w,
                            [bus |-> bus, addr |-> addr, data |-> data,
                             memaddr |-> memaddr])
  /\ UNCHANGED <<now, pin, pc, hist, scen, wrote, devVars,
                 periVars>>

EmitEvent(type, data) ==
  /\ Room
  /\ LET w == emit_event(World, type, data)
     IN Commit(w) /\ Called("emit_event", w, [type |-> type])
  /\ UNCHANGED <<now, pin, pc, hist, scen, wrote, devVars,
                 periVars>>


\* --------------------------------------------- calls of the Pin facade
\* time a call may take between two of its own clock readings
Elapsed == {d \in {0, Window} : d = 0 \/ now < Epoch + MaxTicks}

\* the update_pin calls made by a facade call, as the history sees them
NotedAll(h, id, w0, w1, w2, t1, t2) ==
  Noted(Noted(h, id, t1, w1.nemit - w0.nemit), id, t2, w2.nemit - w1.nemit)

PinNew(p, id, mode, value) ==
  /\ Room
  /\ \E d \in Elapsed :
       LET r == Pin_init(World, id, mode, value, now + d)
       IN /\ Commit(r.w)
          /\ pin' = IF r.w.raised = "" THEN DictSet(pin, p, r.self) ELSE pin
          /\ now' = now + d
          /\ Called("Pin", r.w, [p |-> p, id |-> id, mode |-> mode,
                                 value |-> value])
          /\ hist' = IF value = None \/ r.w.raised # "" THEN hist
                     ELSE Noted(hist, id, now + d, r.w.nemit - nemit - 1)
          /\ wrote' = IF value = None THEN wrote
                      ELSE [wrote EXCEPT ![id] = Some(r.self._value)]
  /\ scen' = IF id = "25" /\ mode = Pin_OUT /\ value = None
               THEN [stage |-> 1, p |-> p]
               ELSE [stage |-> 0, p |-> ""]
  /\ UNCHANGED <<pc, devVars,
                 periVars>>

PinValue(p, val) ==
  /\ Room
  /\ p \in DOMAIN pin
  /\ LET r == Pin_value(World, pin[p], val, now)
     IN /\ Commit(r.w)
        /\ pin' = [pin EXCEPT ![p]._value = r.own]
        /\ Called("Pin.value", r.w,
                  [p |-> p, id |-> pin[p]._id, val |-> val, ret |-> r.ret,
                   had |-> IF pin[p]._id \in DOMAIN _pins
                             THEN Some(_pins[pin[p]._id]) ELSE None])
        /\ hist' = Noted(hist, pin[p]._id, now, r.w.nemit - nemit)
        /\ wrote' = IF val = None THEN wrote
                    ELSE [wrote EXCEPT ![pin[p]._id] = Some(r.ret)]
  /\ scen' = IF scen.p = p /\ scen.stage = 1 /\ val = None
               THEN [scen EXCEPT !.stage = 2]
               ELSE IF scen.p = p /\ scen.stage = 2 /\ val = Some(1)
                      THEN [scen EXCEPT !.stage = 3]
                      ELSE [stage |-> 0, p |-> ""]
  /\ UNCHANGED <<now, pc, devVars,
                 periVars>>

PinToggle(p) ==
  /\ Room
  /\ p \in DOMAIN pin
  /\ \E d \in Elapsed :
       LET r1 == Pin_value(World, pin[p], None, now)
           r == Pin_toggle(World, pin[p], now, now + d)
       IN /\ Commit(r.w)
          /\ pin' = [pin EXCEPT ![p]._value = r.own]
          /\ now' = now + d
          /\ Called("Pin.toggle", r.w, [p |-> p, id |-> pin[p]._id,
                                        ret |-> r.ret])
          /\ hist' = NotedAll(hist, pin[p]._id, World, r1.w, r.w,
                              now, now + d)
          /\ wrote' = [wrote EXCEPT ![pin[p]._id] = Some(r.ret)]
  /\ scen' = IF scen.p = p /\ scen.stage = 3
               THEN [scen EXCEPT !.stage = 4]
               ELSE [stage |-> 0, p |-> ""]
  /\ UNCHANGED <<pc, devVars,
                 periVars>>

\* two Pin objects, either identifier
NextPin ==
  \/ Tick
  \/ \E p \in PinObjs, id \in Ids,
        a \in {<<Pin_OUT, None>>, <<Pin_IN, None>>, <<Pin_PULL_UP, Some(1)>>} :
       PinNew(p, id, a[1], a[2])
  \/ \E p \in PinObjs, val \in {None, Some(0), Some(1)} : PinValue(p, val)
  \/ \E p \in PinObjs : PinToggle(p)

SpecPin == Init /\ [][NextPin]_vars

\* one Pin object per identifier; the constructor arguments tried are every
\* mode, one that is no mode, and the initial values None, 0, 1 and 2
PinArgs == {<<Pin_OUT, None>>, <<Pin_IN, None>>, <<Pin_PULL_UP, Some(1)>>,
            <<Pin_PULL_DOWN, Some(0)>>, <<7, Some(2)>>}

NextPinTable ==
  \/ Tick
  \/ \E a \in PinArgs : PinNew("a", "25", a[1], a[2])
  \/ \E a \in {<<Pin_OUT, None>>, <<7, Some(2)>>} :
       PinNew("b", "LED", a[1], a[2])
  \/ \E p \in PinObjs, val \in {None, Some(0), Some(2)} : PinValue(p, val)
  \/ \E p \in PinObjs : PinToggle(p)

SpecPinTable == Init /\ [][NextPinTable]_vars

NextPinStore ==
  \/ Tick
  \/ Reset
  \/ \E id \in Ids, initial \in {None, Some(1)} :
       RegisterPin(id, "IN", initial)
  \/ \E id \in Ids, v \in {0, 1}, mode \in {None, Some("PULL_UP")} :
       UpdatePin(id, v, mode)

SpecPinStore == Init /\ [][NextPinStore]_vars

\* ------------------------------------------------ I2C tables of the store
\* the (bus, address, memory address) keys responses are configured under
I2cKeys == {<<0, 104, None>>, <<0, 104, Some(117)>>}

NextI2C ==
  \/ Reset
  \/ \E d \in {<<0, <<>>>>, <<0, <<104>>>>, <<1, <<39, 104>>>>} :
       SetI2cDevices(d[1], d[2])
  \/ \E d \in {<<1, 39>>, <<0, 104>>} : RegisterI2cDevice(d[1], d[2])
  \/ \E enabled \in BOOLEAN : SetI2cAutoRespond(enabled)
  \/ \E k \in I2cKeys, data \in Datas : SetI2cResponse(k[1], k[2], data, k[3])
  \/ SetI2cResponse(1, 39, <<0>>, Some(16))

SpecI2C == Init /\ [][NextI2C]_vars

\* ------------------------ a script polling `while not i2c.scan(): pass`
I2cObjs == {"i"}

I2CNew(p, id) ==
  /\ Room
  /\ LET r == I2C_init(World, id)
     IN /\ Commit(r.w)
        /\ i2c' = IF r.w.raised = "" THEN DictSet(i2c, p, r.self) ELSE i2c
        /\ Called("I2C", r.w, [p |-> p, id |-> id])
  /\ UNCHANGED <<now, pin, pc, hist, scen, wrote, poll, timer, uart,
                 _loopback_enabled, io,
                 periVars>>

\* the script reaches the loop
PollStart(p) ==
  /\ Room
  /\ p \in DOMAIN i2c
  /\ poll' = [stage |-> "polling", p |-> p, iters |-> 0]
  /\ nops' = nops + 1
  /\ UNCHANGED <<storeVars, chanVars, now, pin, pc, call, hist, scen, wrote,
                 i2c, timer, uart, _loopback_enabled, io,
                 periVars>>

\* one evaluation of the loop condition `not i2c.scan()`
PollStep ==
  /\ poll.stage = "polling"
  /\ poll.iters < MaxPolls
  /\ LET r == I2C_scan(World, i2c[poll.p])
     IN /\ Commit(r.w)
        /\ poll' = IF r.ret # <<>> \/ r.w.raised # ""
                     THEN [poll EXCEPT !.stage = "done", !.iters = @ + 1]
                     ELSE [poll EXCEPT !.iters = @ + 1]
        /\ call' = [op |-> "I2C.scan", n0 |-> nemit, len0 |-> Len(stdout),
                    rcv0 |-> [x \in Reporters |-> Len(received[x])],
                    t |-> now, new |-> r.w.nemit - nemit,
                    raised |-> r.w.raised, ret |-> r.ret]
  /\ UNCHANGED <<now, pin, pc, nops, hist, scen, wrote, i2c, timer, uart,
                 _loopback_enabled, io,
                 periVars>>

\* the script is single threaded: nothing else runs while it is in the loop
NextScan ==
  \/ /\ poll.stage # "polling"
     /\ \/ Reset
        \/ \E d \in {<<0, <<>>>>, <<1, <<39>>>>} : SetI2cDevices(d[1], d[2])
        \/ RegisterI2cDevice(0, 104)
        \/ \E enabled \in BOOLEAN : SetI2cAutoRespond(enabled)
        \/ \E p \in I2cObjs, id \in Buses : I2CNew(p, id)
        \/ \E p \in I2cObjs : PollStart(p)
  \/ PollStep

SpecScan == Init /\ [][NextScan]_vars /\ WF_vars(PollStep)

\* -------------------------------- irq handlers and timer callbacks
PinIrq(p, handler, trigger) ==
  /\ Room
  /\ p \in DOMAIN pin
  /\ pin' = [pin EXCEPT ![p] = Pin_irq(@, handler, trigger)]
  /\ Commit(World)
  /\ Called("Pin.irq", World, [p |-> p, handler |-> handler])
  /\ UNCHANGED <<now, pc, hist, scen, wrote, devVars,
                 periVars>>

TimerNew(p, id) ==
  /\ Room
  /\ timer' = DictSet(timer, p, Timer_new(id))
  /\ Commit(World)
  /\ Called("Timer", World, [p |-> p, id |-> id])
  /\ UNCHANGED <<now, pin, pc, hist, scen, wrote, i2c, poll, uart,
                 _loopback_enabled, io,
                 periVars>>

TimerInit(p, mode, period, callback) ==
  /\ Room
  /\ p \in DOMAIN timer
  /\ LET r == Timer_init(World, timer[p], mode, 0, period, callback)
     IN /\ Commit(r.w)
        /\ timer' = [timer EXCEPT ![p] = r.self]
        /\ Called("Timer.init", r.w, [p |-> p, callback |-> callback])
  /\ UNCHANGED <<now, pin, pc, hist, scen, wrote, i2c, poll, uart,
                 _loopback_enabled, io,
                 periVars>>

TimerDeinit(p) ==
  /\ Room
  /\ p \in DOMAIN timer
  /\ LET r == Timer_deinit(World, timer[p])
     IN /\ Commit(r.w)
        /\ timer' = [timer EXCEPT ![p] = r.self]
        /\ Called("Timer.deinit", r.w, [p |-> p, had |-> timer[p]._callback])
  /\ UNCHANGED <<now, pin, pc, hist, scen, wrote, i2c, poll, uart,
                 _loopback_enabled, io,
                 periVars>>

NextIrq ==
  \/ Tick
  \/ Reset
  \/ \E mode \in {Pin_IN, Pin_OUT} : PinNew("a", "25", mode, None)
  \/ \E handler \in {None, Some("on_edge")},
        trigger \in {Pin_IRQ_RISING, Pin_IRQ_RISING + Pin_IRQ_FALLING} :
       PinIrq("a", handler, trigger)
  \/ \E val \in {None, Some(0), Some(1)} : PinValue("a", val)
  \/ PinToggle("a")
  \/ \E id \in {-1, 0} : TimerNew("t", id)
  \/ \E mode \in {Timer_ONE_SHOT, Timer_PERIODIC},
        callback \in {None, Some("on_timer")} :
       TimerInit("t", mode, 100, callback)
  \/ TimerDeinit("t")

SpecIrq == Init /\ [][NextIrq]_vars

\* ------------------------------------------------- UART objects of a script
UartObjs == {"u", "v"}
UartRoom == nops < MaxUartOps

\* a call on UART object p that leaves the store alone
UartCalled(op, p, self, rest) ==
  /\ Commit(World)
  /\ uart' = [uart EXCEPT ![p] = self]
  /\ nops' = nops + 1
  /\ call' = [op |-> op, p |-> p, new |-> 0, raised |-> "",
              len0 |-> Len(stdout), any0 |-> UART_any(uart[p])] @@ rest
  /\ UNCHANGED <<now, pin, pc, hist, scen, wrote, i2c, poll, timer,
                 _loopback_enabled,
                 periVars>>

UARTNew(p, id) ==
  /\ UartRoom
  /\ LET r == UART_init(World, id, _loopback_enabled)
     IN /\ Commit(r.w)
        /\ uart' = DictSet(uart, p, r.self)
        /\ io' = DictSet(io, p, [written |-> <<>>, read |-> <<>>,
                                 looped |-> TRUE])
        /\ nops' = nops + 1
        /\ call' = [op |-> "UART", p |-> p, new |-> r.w.nemit - nemit,
                    raised |-> r.w.raised, len0 |-> Len(stdout), any0 |-> 0]
  /\ UNCHANGED <<now, pin, pc, hist, scen, wrote, i2c, poll, timer,
                 _loopback_enabled,
                 periVars>>

EnableLoopback(enabled) ==
  /\ UartRoom
  /\ _loopback_enabled' = enabled
  /\ Commit(World)
  /\ nops' = nops + 1
  /\ call' = [op |-> "UART.enable_loopback", enabled |-> enabled, new |-> 0,
              raised |-> "", len0 |-> Len(stdout)]
  /\ UNCHANGED <<now, pin, pc, hist, scen, wrote, i2c, poll, timer, uart, io,
                 periVars>>

UartWrite(p, buf) ==
  /\ UartRoom
  /\ p \in DOMAIN uart
  /\ LET r == UART_write(World, uart[p], buf, _loopback_enabled)
     IN /\ Commit(r.w)
        /\ uart' = [uart EXCEPT ![p] = r.self]
        /\ io' = [io EXCEPT ![p].written = @ \o buf,
                            ![p].looped = @ /\ _loopback_enabled]
        /\ nops' = nops + 1
        /\ call' = [op |-> "UART.write", p |-> p, buf |-> buf,
                    new |-> r.w.nemit - nemit, raised |-> r.w.raised,
                    len0 |-> Len(stdout), any0 |-> UART_any(uart[p]),
                    ret |-> r.ret]
  /\ UNCHANGED <<now, pin, pc, hist, scen, wrote, i2c, poll, timer,
                 _loopback_enabled,
                 periVars>>

UartRead(p, nbytes) ==
  /\ UartRoom
  /\ p \in DOMAIN uart
  /\ LET r == UART_read(uart[p], nbytes)
     IN /\ UartCalled("UART.read", p, r.self, [ret |-> r.ret])
        /\ io' = [io EXCEPT ![p].read = @ \o (IF r.ret = None THEN <<>>
                                               ELSE r.ret[1])]

UartReadinto(p, buf, nbytes) ==
  /\ UartRoom
  /\ p \in DOMAIN uart
  /\ LET r == UART_readinto(uart[p], buf, nbytes)
     IN /\ UartCalled("UART.readinto", p, r.self,
                      [ret |-> r.ret, buf |-> r.buf])
        /\ io' = [io EXCEPT ![p].read = @ \o (IF r.ret = None THEN <<>>
                                               ELSE Take(r.buf, r.ret[1]))]

UartReadline(p) ==
  /\ UartRoom
  /\ p \in DOMAIN uart
  /\ LET r == UART_readline(uart[p])
     IN /\ UartCalled("UART.readline", p, r.self, [ret |-> r.ret])
        /\ io' = [io EXCEPT ![p].read = @ \o (IF r.ret = None THEN <<>>
                                               ELSE r.ret[1])]

NextUart ==
  \/ \E p \in UartObjs : UARTNew(p, 0)
  \/ \E enabled \in BOOLEAN : EnableLoopback(enabled)
  \/ \E buf \in {<<65>>, <<66, 10>>} : UartWrite("u", buf)
  \/ UartWrite("v", <<67>>)
  \/ \E nbytes \in {None, Some(1), Some(-1)} : UartRead("u", nbytes)
  \/ UartRead("v", None)
  \/ \E a \in {<<<<0, 0>>, None>>, <<<<0>>, Some(3)>>} :
       UartReadinto("u", a[1], a[2])
  \/ UartReadline("u")

SpecUart == Init /\ [][NextUart]_vars

\* ------------------------------------------------ a script driving a strip
NeoScript(p, n, color) ==
  /\ Room
  /\ p \in DOMAIN pin
  /\ LET r == NeoPixel_script(World, pin[p], n, <<255, 0, 0>>, color)
     IN /\ Commit(r.w)
        /\ Called("NeoPixel", r.w, [p |-> p, n |-> n, color |-> color,
                                    done |-> r.done])
  /\ UNCHANGED <<now, pin, pc, hist, scen, wrote, devVars,
                 periVars>>

NextNeo ==
  \/ Tick
  \/ \E id \in Ids, mode \in {Pin_IN, Pin_OUT} : PinNew("a", id, mode, None)
  \/ \E val \in {None, Some(0), Some(1)} : PinValue("a", val)
  \/ \E n \in {1, 2}, color \in {<<10, 20, 30>>, <<0, 0, 0>>} :
       NeoScript("a", n, color)

SpecNeo == Init /\ [][NextNeo]_vars

\* ----------------------------------- emission when the channel write fails
\* the reader of standard output goes away: every later print raises
ClosePipe ==
  /\ pipe = "open"
  /\ pipe' = "closed"
  /\ UNCHANGED <<storeVars, stdout, received, nemit, fired, now, pin, pc,
                 histVars, scen, wrote, devVars,
                 periVars>>

NextChannel ==
  \/ ClosePipe
  \/ SetReporter("collect")
  \/ \E initial \in {None, Some(1)} : RegisterPin("25", "OUT", initial)
  \/ \E v \in {0, 1} : UpdatePin("25", v, None)
  \/ SetAdcValue("25", 70000)
  \/ EmitEvent("pwm_init", [pin |-> "25", freq |-> 1000])
  \/ EmitEvent("custom", [raw |-> <<0>>])
  \/ \E value \in {None, Some(1)} : PinNew("a", "LED", Pin_OUT, value)
  \/ \E val \in {None, Some(1)} : PinValue("a", val)

SpecChannel == Init /\ [][NextChannel]_vars

\* ------------------------------- the whole store API, with its observers
Next ==
  \/ Tick
  \/ \E r \in {"collect", "broken"} : SetReporter(r)
  \/ ClearReporters
  \/ Reset
  \/ RegisterPin("25", "IN", Some(1))
  \/ \E v \in {0, 1} : UpdatePin("25", v, None)
  \/ SetAdcValue("25", 70000)
  \/ ClearAdcValue("25")
  \/ SetI2cDevices(0, <<104>>)
  \/ RegisterI2cDevice(0, 39)
  \/ SetI2cAutoRespond(FALSE)
  \/ SetI2cResponse(0, 104, <<171>>, Some(117))
  \/ EmitEvent("pwm_init", [pin |-> "25", freq |-> 1000])

Spec == Init /\ [][Next]_vars

\* ------------------------------------------- a script run by runner.main
Endings == {"returned", "SystemExit", "KeyboardInterrupt", "ImportError",
            "SyntaxError", "FileNotFoundError", "Exception"}

MainStart(exists) ==
  /\ pc = "idle"
  /\ LET w == main_start(World, exists)
     IN Commit(w) /\ Called("main", w, [exists |-> exists])
  /\ pc' = IF exists THEN "running" ELSE "returned"
  /\ UNCHANGED <<now, pin, hist, scen, wrote, devVars,
                 periVars>>

MainEnd(how, code) ==
  /\ pc = "running"
  /\ LET r == main_end(World, how, code)
     IN Commit(r.w) /\ Called("main_end", r.w, [how |-> how, ret |-> r.ret])
  /\ pc' = "returned"
  /\ UNCHANGED <<now, pin, hist, scen, wrote, devVars,
                 periVars>>

Script ==
  /\ pc = "running"
  /\ \/ Tick
     \/ \E id \in Ids, a \in {<<Pin_OUT, None>>, <<Pin_IN, Some(1)>>} :
          PinNew("a", id, a[1], a[2])
     \/ \E val \in {None, Some(0), Some(1)} : PinValue("a", val)
     \/ PinToggle("a")
     \/ SetAdcValue("25", 70000)
     \/ EmitEvent("pwm_init", [pin |-> "25", freq |-> 1000])

\* machine.reset(), soft_reset(), deepsleep(time_ms), bootloader(timeout):
\* emit the event, then raise SystemExit with a message as its code
ExitMessage ==
  [reset |-> "Machine reset requested", soft_reset |-> "Soft reset requested",
   deepsleep |-> "Deep sleep requested",
   bootloader |-> "Bootloader mode requested"]

machine_exit(w, fn, arg) ==
  LET data == CASE fn = "deepsleep" -> [time_ms |-> arg]
                [] fn = "bootloader" -> [timeout |-> arg]
                [] OTHER -> [type |-> fn]
  IN [w |-> emit_event(w, fn, data), exc |-> StrCode(ExitMessage[fn])]
     \* (emit_event adds the type to data, so reset's empty dict is written
     \* here as the record it becomes)

\* the script calls one of them and does not catch the SystemExit: the
\* facade's event, the unwinding of runpy.run_path and main's except clause
MachineExit(fn, arg) ==
  /\ pc = "running"
  /\ LET f == machine_exit(World, fn, arg)
         r == IF f.w.raised = ""
                THEN main_end(f.w, "SystemExit", f.exc)
                ELSE main_end([f.w EXCEPT !.raised = ""], "Exception", None)
     IN Commit(r.w) /\ Called("machine_exit", r.w,
                              [fn |-> fn, ret |-> r.ret, exc |-> f.exc,
                               mid |-> Len(f.w.stdout)])
  /\ pc' = "returned"
  /\ UNCHANGED <<now, pin, hist, scen, wrote, devVars, periVars>>

NextRunner ==
  \/ \E exists \in BOOLEAN : MainStart(exists)
  \/ Script
  \/ \E how \in Endings \ {"SystemExit"} : MainEnd(how, None)
  \/ \E code \in {None, IntCode(0), IntCode(3), StrCode("3")} :
       MainEnd("SystemExit", code)
  \/ \E fn \in {"reset", "soft_reset"} : MachineExit(fn, None)
  \/ \E time_ms \in {None, Some(1000)} : MachineExit("deepsleep", time_ms)
  \/ MachineExit("bootloader", Some(0))

SpecRunner == Init /\ [][NextRunner]_vars

\* ==================================================================
\* Properties
\* ==================================================================
\* the events a call put on the stream
NewLines == SubSeq(stdout, call.len0 + 1, Len(stdout))
Emitted(type, id, value) ==
  \E i \in DOMAIN NewLines :
    /\ NewLines[i].json.type = type
    /\ NewLines[i].json.pin = id
    /\ NewLines[i].json.value = value

\* C1: the k-th line of the stream is the k-th event created, every observer
\* got its events in that order, and an emitting operation has put its event
\* on the stream and handed it to every registered observer when it returns.
EventType(c) ==
  CASE c.op = "reset" -> "reset"
    [] c.op = "register_pin" -> "pin_register"
    [] c.op = "update_pin" -> "pin_update"
    [] c.op = "set_adc_value" -> "adc_set"
    [] c.op = "set_i2c_devices" -> "i2c_devices_set"
    [] c.op = "register_i2c_device" -> "i2c_device_registered"
    [] c.op = "set_i2c_auto_respond" -> "i2c_auto_respond"
    [] c.op = "set_i2c_response" -> "i2c_response_set"
    [] c.op = "emit_event" -> c.type
    [] OTHER -> "none"
AlwaysEmits == {"reset", "register_pin", "set_adc_value", "set_i2c_devices",
                "register_i2c_device", "set_i2c_auto_respond",
                "set_i2c_response", "emit_event"}

C1_OrderedSynchronous ==
  /\ \A i \in DOMAIN stdout : stdout[i].id = i
  /\ \A r \in Reporters : \A i \in DOMAIN received[r] :
       /\ received[r][i].id \in DOMAIN stdout
       /\ received[r][i].ev = stdout[received[r][i].id].json
       /\ i > 1 => received[r][i - 1].id < received[r][i].id
  /\ call.op \in AlwaysEmits => call.new = 1
  /\ call.op # "none" /\ call.new > 0 =>
       /\ call.new = 1
       /\ Len(stdout) = call.len0 + 1
       /\ stdout[Len(stdout)].id = nemit
       /\ stdout[Len(stdout)].json.type = EventType(call)
       /\ \A r \in Reporters :
            IF InList(r, _reporters)
              THEN /\ Len(received[r]) = call.rcv0[r] + 1
                   /\ received[r][Len(received[r])].id = nemit
              ELSE Len(received[r]) = call.rcv0[r]

C1_Witness ==
  /\ _reporters = <<"broken", "collect">>
  /\ Len(stdout) = 1
  /\ Len(received["collect"]) = 1
  /\ Len(received["broken"]) = 1

\* C2: under runner.main every event of the store is on standard output as
\* exactly one line, the prefix followed by the event's JSON object.
C2_OneLinePerEvent ==
  pc \in {"running", "returned"} =>
    \A k \in 1..nemit :
      Cardinality({i \in DOMAIN stdout :
                     stdout[i].id = k /\ stdout[i].prefix = EVENT_PREFIX}) = 1

\* C5: reset leaves the five tables empty and auto-respond enabled, whatever
\* came before it, and emits exactly one reset event.
C5_Reset ==
  call.op = "reset" =>
    /\ _pins = <<>> /\ _adc_values = <<>> /\ _i2c_devices = <<>>
    /\ _i2c_responses = <<>> /\ _last_pin_emit = <<>>
    /\ _i2c_auto_respond
    /\ call.new = 1
    /\ Len(NewLines) = 1 /\ NewLines[1].json = [type |-> "reset"]
    /\ \A r \in Reporters :
         InList(r, _reporters) =>
           /\ Len(received[r]) = call.rcv0[r] + 1
           /\ received[r][Len(received[r])].ev = [type |-> "reset"]

C5_Witness ==
  /\ call.op = "reset"
  /\ call.before._last_pin_emit # <<>>
  /\ call.before._pins # <<>>
  /\ _pins = <<>>

RECURSIVE RunEvents(_, _, _)
RunEvents(h, i, j) == IF i > j THEN 0 ELSE h[i].n + RunEvents(h, i + 1, j)

\* calls i..j of h are a run issued within less than the throttle window
\* that no earlier call of the identifier can be added to
IsRun(h, i, j) ==
  /\ h[j].t - h[i].t < Window
  /\ i = 1 \/ h[j].t - h[i - 1].t >= Window

\* C3: a run of N >= 1 consecutive update_pin calls for one identifier, all
\* within less than the throttle window, emits exactly one pin_update event,
\* and after each call get_pin_value returns the value just written.
C3_ThrottleOneEvent ==
  /\ \A id \in Ids : \A i \in DOMAIN hist[id] : \A j \in i..Len(hist[id]) :
       IsRun(hist[id], i, j) => RunEvents(hist[id], i, j) = 1
  /\ call.op = "update_pin" => _pins[call.id].value = call.value

C3_Witness ==
  \E id \in Ids :
    /\ Len(hist[id]) = 3
    /\ hist[id][3].t - hist[id][1].t < Window
    /\ hist[id][1].n = 1 /\ hist[id][2].n = 0 /\ hist[id][3].n = 0
    /\ call.op = "update_pin" /\ call.id = id
    /\ get_pin_value(World, id) = call.value

\* C4: update_pin(id, v) followed by get_pin_value(id) returns v, for a pin
\* that was registered or not, whether the event was emitted or throttled.
C4_PinRoundTrip ==
  call.op = "update_pin" => get_pin_value(World, call.id) = call.value

C4_Witness ==
  /\ call.op = "update_pin" /\ call.known /\ call.new = 0
  /\ call.value = 1 /\ get_pin_value(World, call.id) = 1

\* C6: Pin("25", OUT) read returns 0; a following value(1) emits pin_update
\* with value 1; a following toggle() emits pin_update with value 0,
\* whatever the time between the calls.
C6_Scenario ==
  /\ scen.stage = 2 => call.ret = 0
  /\ scen.stage = 3 => Emitted("pin_update", "25", 1)
  /\ scen.stage = 4 => Emitted("pin_update", "25", 0)

\* C7: two Pin objects of one identifier share its PinState: what was last
\* written through either is what value() returns on both.
C7_SharedPinState ==
  \A p, q \in DOMAIN pin :
    p # q /\ pin[p]._id = pin[q]._id /\ wrote[pin[q]._id] # None =>
      get_pin_value(World, pin[q]._id) = wrote[pin[q]._id][1]

\* C8: every PinState has value 0 or 1 and one of the four modes, and is
\* stored under its own identifier.
C8_PinStateInvariant ==
  \A id \in DOMAIN _pins :
    /\ _pins[id].value \in {0, 1}
    /\ _pins[id].mode \in ModeNames
    /\ _pins[id].identifier = id

C8_Witness ==
  /\ call.op = "Pin" /\ call.mode = 7 /\ call.value = Some(2)
  /\ _pins[call.id] = PinState(call.id, "OUT", 1)
  /\ \E id \in DOMAIN _pins : _pins[id].mode = "IN"

\* C9: get_i2c_response returns exactly n bytes for every n >= 0 and every
\* memaddr, with or without a configured response and whatever its length.
Lengths == 0..(MaxBytes + 1)
C9_ExactLength ==
  \A bus \in Buses, addr \in Addrs, n \in Lengths, memaddr \in MemAddrs :
    Len(get_i2c_response(World, bus, addr, n, memaddr)) = n

C9_Witness ==
  /\ ~_i2c_auto_respond
  /\ I2cKey(0, 104, Some(117)) \in DOMAIN _i2c_responses
  /\ Len(_i2c_responses[I2cKey(0, 104, Some(117))]) = MaxBytes
  /\ Len(get_i2c_response(World, 0, 104, MaxBytes - 1, Some(117)))
       = MaxBytes - 1
  /\ Len(get_i2c_response(World, 0, 104, MaxBytes + 1, Some(117)))
       = MaxBytes + 1
  /\ get_i2c_response(World, 1, 39, 0, None) = <<>>

\* C10: a bus with no registered address scans as the empty list when
\* auto-respond is disabled and as the four fallback addresses when it is
\* enabled; a bus with registered addresses scans as those, whatever the flag.
C10_Devices ==
  \A bus \in Buses :
    LET registered == IF bus \in DOMAIN _i2c_devices
                        THEN _i2c_devices[bus] ELSE <<>>
    IN get_i2c_devices(World, bus) =
         IF Len(registered) >= 1 THEN registered
         ELSE IF _i2c_auto_respond THEN <<104, 60, 118, 39>>
         ELSE <<>>

C10_Witness ==
  /\ ~_i2c_auto_respond
  /\ 0 \in DOMAIN _i2c_devices /\ _i2c_devices[0] = <<>>
  /\ get_i2c_devices(World, 0) = <<>>
  /\ get_i2c_devices(World, 1) = <<39>>

\* C11: with auto-respond enabled the loop `while not i2c.scan(): pass`
\* ends, on a bus with registered devices, with none ever registered, or
\* set to the empty list.
C11_ScanLoopTerminates ==
  (poll.stage = "polling" /\ _i2c_auto_respond) ~> (poll.stage = "done")

C11_Witness ==
  /\ poll.stage = "done" /\ poll.iters = 1
  /\ _i2c_auto_respond
  /\ i2c[poll.p]._id \in DOMAIN _i2c_devices
  /\ _i2c_devices[i2c[poll.p]._id] = <<>>
  /\ call.ret = FallbackDevices

C13_FirstByteNonZero ==
  _i2c_auto_respond =>
    \A bus \in Buses, addr \in ProbeAddrs, n \in Lengths \ {0},
       memaddr \in MemAddrs :
      I2cKey(bus, addr, memaddr) \notin DOMAIN _i2c_responses =>
        get_i2c_response(World, bus, addr, n, memaddr)[1] # 0

\* what the last store operation wrote is in the tables
Applied ==
  CASE call.op = "reset" -> _pins = <<>> /\ _adc_values = <<>>
    [] call.op = "register_pin" ->
         /\ call.id \in DOMAIN _pins
         /\ _pins[call.id].mode = call.mode
         /\ _pins[call.id].value = (IF Truthy(call.initial) THEN 1 ELSE 0)
    [] call.op = "update_pin" ->
         call.id \in DOMAIN _pins /\ _pins[call.id].value = call.value
    [] call.op = "set_adc_value" ->
         /\ call.id \in DOMAIN _adc_values
         /\ _adc_values[call.id] = Max(0, Min(65535, call.value))
    [] call.op = "set_i2c_devices" ->
         /\ call.bus \in DOMAIN _i2c_devices
         /\ _i2c_devices[call.bus] = call.addresses
    [] call.op = "register_i2c_device" ->
         /\ call.bus \in DOMAIN _i2c_devices
         /\ InList(call.addr, _i2c_devices[call.bus])
    [] call.op = "set_i2c_auto_respond" -> _i2c_auto_respond = call.enabled
    [] call.op = "set_i2c_response" ->
         /\ I2cKey(call.bus, call.addr, call.memaddr) \in DOMAIN _i2c_responses
         /\ _i2c_responses[I2cKey(call.bus, call.addr, call.memaddr)]
              = call.data
    [] OTHER -> TRUE

\* C14: when a registered observer raises on an event, every other
\* registered observer still gets the event, what the operation wrote
\* stays written, and the operation returns without raising.
C14_BrokenObserver ==
  call.op \in AlwaysEmits \cup {"update_pin"}
    /\ InList("broken", _reporters) =>
      /\ call.raised = ""
      /\ Applied
      /\ call.new = 1 =>
           \A r \in Reporters :
             InList(r, _reporters) =>
               /\ Len(received[r]) = call.rcv0[r] + 1
               /\ received[r][Len(received[r])].id = nemit
               /\ received[r][Len(received[r])].ev = stdout[Len(stdout)].json

C14_Witness ==
  /\ _reporters = <<"broken", "collect">>
  /\ call.op = "set_adc_value" /\ call.raised = ""
  /\ _adc_values = [x \in {"25"} |-> 65535]
  /\ Len(received["broken"]) = 1
  /\ received["collect"]
       = <<[ev |-> [type |-> "adc_set", pin |-> "25", value |-> 65535],
            id |-> nemit]>>

\* C15: a failure to serialize the event or to write its line to standard
\* output never leaves a store write operation or a facade call: the
\* operation returns without raising.
C15_WriteFailureSwallowed ==
  call.op # "none" => call.raised = ""

\* C16: register_pin(id, mode, initial) emits one pin_register event with
\* the stored mode and value, also inside the throttle window of a
\* pin_update of the same id, and replaces the PinState id had.
C16_RegisterAlwaysEmits ==
  call.op = "register_pin" =>
    LET v == IF call.initial = None \/ call.initial[1] = 0 THEN 0 ELSE 1
    IN /\ call.new = 1
       /\ Len(NewLines) = 1
       /\ NewLines[1].json = [type |-> "pin_register", pin |-> call.id,
                              mode |-> call.mode, value |-> v]
       /\ call.id \in DOMAIN _pins
       /\ _pins[call.id]
            = [identifier |-> call.id, mode |-> call.mode, value |-> v]

C16_Witness ==
  /\ call.op = "register_pin"
  /\ call.id \in DOMAIN _last_pin_emit
  /\ now - _last_pin_emit[call.id] < Window
  /\ call.had = Some(PinState(call.id, "PULL_UP", 1))
  /\ _pins[call.id] = PinState(call.id, "IN", 0)
  /\ NewLines[1].json.type = "pin_register"

IsPrefix(a, b) == Len(a) <= Len(b) /\ SubSeq(b, 1, Len(a)) = a

\* C18: for a UART object all of whose writes were made with loopback
\* enabled, the bytes returned by its reads so far, in order, are a prefix of
\* the bytes written to it so far, what is left in its buffer is the rest,
\* and any() is the number of bytes written minus the number read.
C18_LoopbackFifo ==
  \A p \in DOMAIN uart :
    io[p].looped =>
      /\ IsPrefix(io[p].read, io[p].written)
      /\ io[p].read \o uart[p]._rx_buffer = io[p].written
      /\ UART_any(uart[p]) = Len(io[p].written) - Len(io[p].read)

C18_Witness ==
  /\ call.op = "UART.readline" /\ call.ret = Some(<<10>>)
  /\ io[call.p].looped
  /\ io[call.p].written = <<66, 10>>
  /\ io[call.p].read = <<66, 10>>
  /\ UART_any(uart[call.p]) = 0

\* C19: after enable_loopback(False) a write on any UART object, also one
\* constructed while loopback was enabled, adds nothing to its receive
\* buffer; after enable_loopback(True) a write on any object adds its bytes.
C19_LoopbackForAll ==
  call.op = "UART.write" =>
    uart[call.p]._rx_buffer =
      IF _loopback_enabled
        THEN SubSeq(uart[call.p]._rx_buffer, 1, call.any0) \o call.buf
        ELSE SubSeq(uart[call.p]._rx_buffer, 1, call.any0)

\* C20: np = NeoPixel(pin, n); np[0] = c; np.fill(color); np.write() runs
\* to its end and puts two events on the stream: neopixel_init for the
\* construction, then one neopixel_write whose pixels are n entries equal to
\* color; the item assignment and fill add none.
C20_FillWrite ==
  call.op = "NeoPixel" =>
    /\ call.raised = "" /\ call.done = 4
    /\ Len(NewLines) = 2
    /\ NewLines[1].json.type = "neopixel_init"
    /\ NewLines[2].json.type = "neopixel_write"
    /\ NewLines[2].json.pixels = [i \in 1..call.n |-> call.color]

\* ============================================================= PWM facade
NS_PER_S == 1000000000
U16_MAX == 65535

\* state.emit_pwm_update: every PWM event has the one type "pwm_update"
emit_pwm_update(w, pin_id, freq, duty) ==
  _emit(w, [type |-> "pwm_update", pin |-> pin_id, freq |-> freq,
            duty |-> duty])

\* PWM.__init__(pin, freq, duty_u16): the arguments are stored as given
PWM_new(w, pin_self, freq, duty_u16) ==
  [w |-> emit_pwm_update(w, pin_self._id, freq, duty_u16),
   self |-> [_pin |-> pin_self._id, _freq |-> freq,
             _duty_u16 |-> duty_u16, _active |-> TRUE]]

\* (value * 65535) // period_ns with period_ns = 1e9 // freq, or 1 when the
\* frequency is not positive; the division raises when period_ns is 0
\* (freq > 1e9)
_period_ns_set(freq) == IF freq > 0 THEN NS_PER_S \div freq ELSE 1

_duty_from_ns(w, self, value) ==
  LET period_ns == _period_ns_set(self._freq)
  IN IF period_ns = 0
       THEN [w |-> [w EXCEPT !.raised = "ZeroDivisionError"], self |-> self]
       ELSE [w |-> w,
             self |-> [self EXCEPT
                         !._duty_u16 = (value * U16_MAX) \div period_ns]]

\* PWM.init(*, freq=0, duty_u16=0, duty_ns=0)
PWM_init(w, self, freq, duty_u16, duty_ns) ==
  LET s1 == IF freq > 0 THEN [self EXCEPT !._freq = freq] ELSE self
      r2 == IF duty_u16 > 0
              THEN [w |-> w, self |-> [s1 EXCEPT !._duty_u16 = duty_u16]]
              ELSE IF duty_ns > 0 THEN _duty_from_ns(w, s1, duty_ns)
                   ELSE [w |-> w, self |-> s1]
  IN IF r2.w.raised # "" THEN [w |-> r2.w, self |-> s1]
     ELSE [w |-> emit_pwm_update(w, r2.self._pin, r2.self._freq,
                                 r2.self._duty_u16),
           self |-> r2.self]

\* PWM.freq(value): getter when value is None
PWM_freq(w, self, value) ==
  IF value = None THEN [w |-> w, self |-> self, ret |-> Some(self._freq)]
  ELSE [w |-> emit_pwm_update(w, self._pin, value[1], self._duty_u16),
        self |-> [self EXCEPT !._freq = value[1]], ret |-> None]

\* PWM.duty_u16(value): the only setter that clamps
PWM_duty_u16(w, self, value) ==
  IF value = None THEN [w |-> w, self |-> self, ret |-> Some(self._duty_u16)]
  ELSE LET d == Max(0, Min(U16_MAX, value[1]))
       IN [w |-> emit_pwm_update(w, self._pin, self._freq, d),
           self |-> [self EXCEPT !._duty_u16 = d], ret |-> None]

\* PWM.duty_ns(value)
PWM_duty_ns(w, self, value) ==
  IF value = None
    THEN LET period_ns == IF self._freq > 0 THEN NS_PER_S \div self._freq
                          ELSE 0
         IN [w |-> w, self |-> self,
             ret |-> Some((self._duty_u16 * period_ns) \div U16_MAX)]
    ELSE LET r == _duty_from_ns(w, self, value[1])
         IN IF r.w.raised # "" THEN [w |-> r.w, self |-> self, ret |-> None]
            ELSE [w |-> emit_pwm_update(w, self._pin, self._freq,
                                        r.self._duty_u16),
                  self |-> r.self, ret |-> None]

\* PWM.deinit()
PWM_deinit(w, self) ==
  [w |-> emit_pwm_update(w, self._pin, self._freq, 0),
   self |-> [self EXCEPT !._active = FALSE, !._duty_u16 = 0]]

\* ------------------------------------------------- PWM objects of a script
PwmRoom == nops < MaxPwmOps

\* frequencies with periods of 20000 ns, 1000 ns and 0 ns
PwmFreqs == {50000, 1000000, 2000000000}
PwmDuties == {0, 32768, 70000}
PwmNanos == {0, 500, 1500}

PwmCalled(op, p, r, rest) ==
  /\ Commit(r.w)
  /\ pwm' = DictSet(pwm, p, r.self)
  /\ Called(op, r.w, [p |-> p] @@ rest)
  /\ UNCHANGED <<now, pin, pc, hist, scen, wrote, devVars, adc, wait>>

PwmNew(p, q, freq, duty_u16) ==
  /\ PwmRoom
  /\ q \in DOMAIN pin
  /\ PwmCalled("PWM", p, PWM_new(World, pin[q], freq, duty_u16),
               [id |-> pin[q]._id, freq |-> freq, duty |-> duty_u16])

PwmInit(p, freq, duty_u16, duty_ns) ==
  /\ PwmRoom
  /\ p \in DOMAIN pwm
  /\ PwmCalled("PWM.init", p, PWM_init(World, pwm[p], freq, duty_u16, duty_ns),
               [had |-> pwm[p], freq |-> freq, duty |-> duty_u16,
                ns |-> duty_ns])

PwmFreq(p, value) ==
  /\ PwmRoom
  /\ p \in DOMAIN pwm
  /\ LET r == PWM_freq(World, pwm[p], value)
     IN PwmCalled("PWM.freq", p, r,
                  [had |-> pwm[p], val |-> value, ret |-> r.ret])

PwmDutyU16(p, value) ==
  /\ PwmRoom
  /\ p \in DOMAIN pwm
  /\ LET r == PWM_duty_u16(World, pwm[p], value)
     IN PwmCalled("PWM.duty_u16", p, r,
                  [had |-> pwm[p], val |-> value, ret |-> r.ret])

PwmDutyNs(p, value) ==
  /\ PwmRoom
  /\ p \in DOMAIN pwm
  /\ LET r == PWM_duty_ns(World, pwm[p], value)
     IN PwmCalled("PWM.duty_ns", p, r,
                  [had |-> pwm[p], val |-> value, ret |-> r.ret])

PwmDeinit(p) ==
  /\ PwmRoom
  /\ p \in DOMAIN pwm
  /\ PwmCalled("PWM.deinit", p, PWM_deinit(World, pwm[p]), [had |-> pwm[p]])

NextPwm ==
  \/ PinNew("a", "25", Pin_OUT, None)
  \/ \E freq \in PwmFreqs, duty_u16 \in PwmDuties :
       PwmNew("w", "a", freq, duty_u16)
  \/ \E a \in {<<0, 0, 0>>, <<50000, 70000, 0>>, <<0, 0, 1500>>,
               <<1000000, 0, 500>>} :
       PwmInit("w", a[1], a[2], a[3])
  \/ \E value \in {None} \cup {Some(f) : f \in PwmFreqs} : PwmFreq("w", value)
  \/ \E value \in {None} \cup {Some(d) : d \in PwmDuties} :
       PwmDutyU16("w", value)
  \/ \E value \in {None} \cup {Some(n) : n \in PwmNanos} :
       PwmDutyNs("w", value)
  \/ PwmDeinit("w")

SpecPwm == Init /\ [][NextPwm]_vars

\* C21: PWM construction, freq(v), duty_u16(v) or duty_ns(v), and deinit()
\* emit events of type pwm_init, pwm_freq, pwm_duty and pwm_deinit
\* respectively, each carrying the pin identifier and the relevant numeric
\* field.
PwmEventType(op) ==
  IF op = "PWM" THEN "pwm_init"
  ELSE IF op = "PWM.freq" THEN "pwm_freq"
  ELSE IF op = "PWM.deinit" THEN "pwm_deinit"
  ELSE "pwm_duty"

PwmSetter ==
  \/ call.op \in {"PWM", "PWM.deinit"}
  \/ call.op \in {"PWM.freq", "PWM.duty_u16", "PWM.duty_ns"}
       /\ call.val # None

C21_PwmEventTypes ==
  (PwmSetter /\ call.raised = "") =>
    /\ Len(NewLines) = 1
    /\ NewLines[1].json.type = PwmEventType(call.op)
    /\ NewLines[1].json.pin = pwm[call.p]._pin

\* C22: for every integer freq > 0, setting the duty with duty_ns(x) and
\* reading it back through the 16-bit fraction, or setting duty_u16(y) and
\* reading duty_ns(), recovers a value within integer-rounding tolerance of
\* the original (one step of the coarser of the two scales, plus one for the
\* floor), and no such call raises.
Abs(x) == IF x < 0 THEN -x ELSE x

C22_DutyRoundTrip ==
  /\ (call.op = "PWM.duty_ns" /\ call.val # None /\ call.had._freq > 0) =>
       /\ call.raised = ""
       /\ LET period_ns == NS_PER_S \div call.had._freq
              back == PWM_duty_ns(World, pwm[call.p], None).ret[1]
          IN Abs(back - call.val[1]) <= period_ns \div U16_MAX + 1
  /\ (call.op = "PWM.duty_u16" /\ call.val # None /\ call.had._freq > 0
        /\ call.val[1] \in 0..U16_MAX) =>
       /\ call.raised = ""
       /\ LET ns == PWM_duty_ns(World, pwm[call.p], None).ret[1]
              back == _duty_from_ns(World, pwm[call.p], ns)
          IN /\ back.w.raised = ""
             /\ Abs(back.self._duty_u16 - call.val[1])
                  <= U16_MAX \div (NS_PER_S \div call.had._freq) + 1

\* C30: after any sequence of PWM operations with non-negative integer
\* arguments, the stored 16-bit duty is in 0..65535, and so is the duty
\* field of every pwm event emitted.
C30_DutyInRange ==
  /\ \A p \in DOMAIN pwm : pwm[p]._duty_u16 \in 0..U16_MAX
  /\ \A i \in DOMAIN stdout :
       stdout[i].json.type = "pwm_update" =>
         stdout[i].json.duty \in 0..U16_MAX

\* ============================================================= ADC facade
TEMP_SENSOR == 4
TEMP_BASE == 27000
TEMP_NOISE == 500
MID_BASE == 32768
MID_NOISE == 1000
VREF_MV == 3300

\* str(n) for the channel numbers a script passes to ADC(...)
Str(n) == IF n = 4 THEN "4" ELSE IF n = 26 THEN "26" ELSE "0"

\* outcomes of random.randint(lo, hi) kept by the model: both ends and 0
randint(lo, hi) == {lo, 0, hi}

\* ADC.__init__(pin): pin is a Pin object (its _id) or a number (str(pin))
ADC_new(w, pin_id) ==
  [w |-> emit_event(w, "adc_init", [pin |-> pin_id]),
   self |-> [_pin_id |-> pin_id, _simulated_value |-> None]]

_adc_read_event(w, self, value) ==
  emit_event(w, "adc_read", [pin |-> self._pin_id, value |-> value,
                             voltage_mv |-> (value * VREF_MV) \div U16_MAX])

\* ADC.read_u16 never looking at the override table
ADC_read_u16_synthetic(w, self, noise) ==
  LET value == IF self._pin_id \in {"4", "ADC4", Str(TEMP_SENSOR)}
                 THEN TEMP_BASE + noise.temp
                 ELSE MID_BASE + noise.other
  IN [w |-> _adc_read_event(w, self, value), ret |-> value]

\* ADC.read_u16(); noise holds what random.randint would return in either
\* branch
ADC_read_u16(w, self, noise) ==
  LET sim_value == get_adc_value(w, self._pin_id)
      value == IF sim_value # None THEN sim_value[1]
               ELSE IF self._pin_id \in {"4", "ADC4", Str(TEMP_SENSOR)}
                      THEN TEMP_BASE + noise.temp
                      ELSE MID_BASE + noise.other
  IN [w |-> _adc_read_event(w, self, value), ret |-> value]

\* ADC.set_simulated_value(value)
ADC_set_simulated_value(w, self, value) ==
  [w |-> set_adc_value(w, self._pin_id, value),
   self |-> [self EXCEPT !._simulated_value = Some(value)]]

\* ------------------------------------------------- ADC objects of a script
AdcRoom == nops < MaxAdcOps
AdcIds == {"4", "ADC4", "26"}
AdcValues == {-5, 300, 70000}
Noise == [temp : randint(-TEMP_NOISE, TEMP_NOISE),
          other : randint(-MID_NOISE, MID_NOISE)]

AdcNew(p, pin_id) ==
  /\ AdcRoom
  /\ LET r == ADC_new(World, pin_id)
     IN /\ Commit(r.w)
        /\ adc' = DictSet(adc, p, r.self)
        /\ Called("ADC", r.w, [p |-> p, id |-> pin_id])
  /\ UNCHANGED <<now, pin, pc, hist, scen, wrote, devVars, pwm, wait>>

AdcReadU16(p) ==
  /\ AdcRoom
  /\ p \in DOMAIN adc
  /\ \E noise \in Noise :
       LET r == ADC_read_u16(World, adc[p], noise)
       IN /\ Commit(r.w)
          /\ Called("ADC.read_u16", r.w,
                    [p |-> p, id |-> adc[p]._pin_id, ret |-> r.ret,
                     had |-> get_adc_value(World, adc[p]._pin_id)])
  /\ UNCHANGED <<now, pin, pc, hist, scen, wrote, devVars, periVars>>

AdcSetSimulatedValue(p, value) ==
  /\ AdcRoom
  /\ p \in DOMAIN adc
  /\ LET r == ADC_set_simulated_value(World, adc[p], value)
     IN /\ Commit(r.w)
        /\ adc' = [adc EXCEPT ![p] = r.self]
        /\ Called("set_adc_value", r.w,
                  [id |-> adc[p]._pin_id, value |-> value])
  /\ UNCHANGED <<now, pin, pc, hist, scen, wrote, devVars, pwm, wait>>

NextAdc ==
  \/ \E pin_id \in AdcIds : AdcNew("s", pin_id)
  \/ AdcReadU16("s")
  \/ \E value \in AdcValues : AdcSetSimulatedValue("s", value)
  \/ \E id \in {"4", "26"}, value \in AdcValues : SetAdcValue(id, value)
  \/ \E id \in {"4", "26"} : ClearAdcValue(id)
  \/ Reset

SpecAdc == Init /\ [][NextAdc]_vars

\* C23: ADC.read_u16() returns the override exactly when one is set for the
\* pin identifier (set_adc_value clamps overrides to 0..65535 and emits
\* adc_set); with no override it returns a value in [26500, 27500] for the
\* temperature channel ("4" or "ADC4") and in [31768, 33768] for any other
\* channel; clear_adc_value or reset leaves no override, so the next read is
\* synthetic again.
C23_AdcRead ==
  /\ call.op = "ADC.read_u16" =>
       /\ call.had # None => call.ret = call.had[1]
       /\ (call.had = None /\ call.id \in {"4", "ADC4"}) =>
            call.ret \in 26500..27500
       /\ (call.had = None /\ call.id \notin {"4", "ADC4"}) =>
            call.ret \in 31768..33768
       /\ Emitted("adc_read", call.id, call.ret)
  /\ call.op = "set_adc_value" =>
       /\ call.id \in DOMAIN _adc_values
       /\ _adc_values[call.id] \in 0..65535
       /\ _adc_values[call.id] =
            (IF call.value < 0 THEN 0
             ELSE IF call.value > 65535 THEN 65535 ELSE call.value)
       /\ Emitted("adc_set", call.id, _adc_values[call.id])
  /\ call.op = "clear_adc_value" => call.id \notin DOMAIN _adc_values
  /\ call.op = "reset" => _adc_values = <<>>

\* a read that is synthetic again on a channel whose override was set through
\* the object and then removed
C23_Witness ==
  /\ call.op = "ADC.read_u16"
  /\ adc[call.p]._simulated_value = Some(300)
  /\ call.had = None
  /\ call.id = "4"
  /\ call.ret = 26500

\* C25: when the running script calls machine.reset(), soft_reset(),
\* deepsleep() or bootloader(), the facade emits its event, the script is
\* unwound, and the runner ends the run with exactly one exit event carrying
\* an integer code and returns that code, never with an exception event or
\* an unhandled error in the runner.
C25_MachineExit ==
  call.op = "machine_exit" =>
    /\ \E i \in DOMAIN NewLines : NewLines[i].json.type = call.fn
    /\ call.raised = ""
    /\ \A i \in DOMAIN stdout : stdout[i].json.type # "exception"
    /\ Cardinality({i \in DOMAIN stdout : stdout[i].json.type = "exit"}) = 1
    /\ stdout[Len(stdout)].json.type = "exit"
    /\ stdout[Len(stdout)].json.code = call.ret

\* C24: for a run of runner.main on an existing script, the event stream
\* begins with a reset event followed by a start event, every peripheral
\* event lies after start and before a single terminal event, and the
\* terminal event is complete with status ok (exit code 0) when the script
\* finishes without raising and exception (exit code 1) when it raises an
\* ordinary exception.
Terminal == {"complete", "exit", "exception"}
Ordinary == {"ImportError", "SyntaxError", "FileNotFoundError", "Exception"}

BeginsResetStart(out) ==
  /\ Len(out) >= 2
  /\ out[1].json.type = "reset"
  /\ out[2].json.type = "start"
  /\ \A i \in 3..Len(out) : out[i].json.type # "start"

C24_RunShape ==
  /\ pc = "running" =>
       /\ BeginsResetStart(stdout)
       /\ \A i \in DOMAIN stdout : stdout[i].json.type \notin Terminal
  /\ (pc = "returned" /\ call.op = "main_end") =>
       /\ BeginsResetStart(stdout)
       /\ \A i \in 1..(Len(stdout) - 1) : stdout[i].json.type \notin Terminal
       /\ stdout[Len(stdout)].json.type \in Terminal
       /\ call.how = "returned" =>
            /\ stdout[Len(stdout)].json = [type |-> "complete", status |-> "ok"]
            /\ call.ret = 0
       /\ call.how \in Ordinary =>
            /\ stdout[Len(stdout)].json.type = "exception"
            /\ call.ret = 1

\* ============================ a script waiting for its timer callback
\* how often the callback cb has been called: the script's callback_count
RECURSIVE CountFired(_, _)
CountFired(calls, cb) ==
  IF calls = <<>> THEN 0
  ELSE (IF Head(calls) = cb THEN 1 ELSE 0) + CountFired(Tail(calls), cb)

\* utime.sleep_ms: time passes and nothing else happens; no timer is looked
\* at, no callback is called
sleep_ms(t) == IF t < Epoch + MaxTicks THEN t + 1 ELSE t

\* the script reaches `while callback_count < k: utime.sleep_ms(50)` with a
\* periodic timer initialised with a callback
WaitStart(p, k) ==
  /\ Room
  /\ wait.stage = "idle"
  /\ p \in DOMAIN timer
  /\ timer[p]._active
  /\ timer[p]._mode = Timer_PERIODIC
  /\ timer[p]._callback # None
  /\ wait' = [stage |-> "waiting", p |-> p, k |-> k, at |-> "test"]
  /\ nops' = nops + 1
  /\ UNCHANGED <<storeVars, chanVars, now, pin, pc, call, hist, scen, wrote,
                 devVars, pwm, adc>>

\* one statement of the loop: the test of callback_count, or the sleep
\* that follows it and leads back to the test
WaitStep ==
  /\ wait.stage = "waiting"
  /\ IF wait.at = "sleep"
       THEN /\ wait' = [wait EXCEPT !.at = "test"]
            /\ now' = sleep_ms(now)
       ELSE /\ wait' = IF CountFired(fired, timer[wait.p]._callback[1])
                           >= wait.k
                        THEN [wait EXCEPT !.stage = "done"]
                        ELSE [wait EXCEPT !.at = "sleep"]
            /\ now' = now
  /\ UNCHANGED <<storeVars, chanVars, pin, pc, histVars, scen, wrote,
                 devVars, pwm, adc>>

\* the script is single threaded: nothing else runs while it is in the loop
NextTimerWait ==
  \/ /\ wait.stage # "waiting"
     /\ \/ Tick
        \/ \E id \in {-1, 0} : TimerNew("t", id)
        \/ \E mode \in {Timer_ONE_SHOT, Timer_PERIODIC},
              callback \in {None, Some("on_timer")} :
             TimerInit("t", mode, 200, callback)
        \/ TimerDeinit("t")
        \/ \E k \in {1, 2} : WaitStart("t", k)
  \/ WaitStep

SpecTimerWait == Init /\ [][NextTimerWait]_vars /\ WF_vars(WaitStep)

\* C26: after Timer.init(mode=PERIODIC, period=p, callback=cb), a script
\* that sleeps in a loop until cb has been called k >= 1 times eventually
\* leaves the loop.
C26_WaitLoopEnds ==
  (wait.stage = "waiting") ~> (wait.stage = "done")

\* ============================================= State Store read operations
\* dict.setdefault in the place of dict.get: a miss leaves the default behind
dict_setdefault(w, table, key, dflt) ==
  [w |-> [w EXCEPT ![table] = IF key \in DOMAIN @ THEN @
                              ELSE DictSet(@, key, dflt)],
   ret |-> DictGet(w[table], key, dflt)]

\* table.get(key, dflt) on one of the store's dictionaries
dict_get(w, table, key, dflt) ==
  [w |-> w, ret |-> DictGet(w[table], key, dflt)]

ReadOps == {"get_pin_value", "get_adc_value", "get_i2c_devices",
            "get_i2c_response"}

GetPinValue(id) ==
  /\ Room
  /\ LET g == dict_get(World, "_pins", id, PinState(id, "OUT", 0))
     IN Commit(g.w) /\ Called("get_pin_value", g.w,
                              [id |-> id, before |-> World,
                               ret |-> get_pin_value(g.w, id)])
  /\ UNCHANGED <<now, pin, pc, hist, scen, wrote, devVars, periVars>>

GetAdcValue(id) ==
  /\ Room
  /\ LET g == dict_get(World, "_adc_values", id, 0)
     IN Commit(g.w) /\ Called("get_adc_value", g.w,
                              [id |-> id, before |-> World,
                               ret |-> get_adc_value(g.w, id)])
  /\ UNCHANGED <<now, pin, pc, hist, scen, wrote, devVars, periVars>>

GetI2cDevices(bus) ==
  /\ Room
  /\ LET g == dict_get(World, "_i2c_devices", bus, <<>>)
     IN Commit(g.w) /\ Called("get_i2c_devices", g.w,
                              [bus |-> bus, before |-> World,
                               ret |-> get_i2c_devices(g.w, bus)])
  /\ UNCHANGED <<now, pin, pc, hist, scen, wrote, devVars, periVars>>

GetI2cResponse(bus, addr, nbytes, memaddr) ==
  /\ Room
  /\ LET g == dict_get(World, "_i2c_responses", I2cKey(bus, addr, memaddr),
                       <<>>)
     IN Commit(g.w) /\ Called("get_i2c_response", g.w,
                              [bus |-> bus, before |-> World,
                               ret |-> get_i2c_response(g.w, bus, addr,
                                                        nbytes, memaddr)])
  /\ UNCHANGED <<now, pin, pc, hist, scen, wrote, devVars, periVars>>

NextReads ==
  \/ Tick
  \/ SetReporter("collect")
  \/ Reset
  \/ RegisterPin("25", "OUT", Some(1))
  \/ UpdatePin("LED", 1, None)
  \/ SetAdcValue("25", 300)
  \/ SetI2cDevices(0, <<104>>)
  \/ SetI2cAutoRespond(FALSE)
  \/ SetI2cResponse(0, 104, <<171>>, Some(117))
  \/ \E id \in Ids : GetPinValue(id)
  \/ \E id \in Ids : GetAdcValue(id)
  \/ \E bus \in Buses : GetI2cDevices(bus)
  \/ \E memaddr \in {None, Some(117)} : GetI2cResponse(0, 104, 2, memaddr)

SpecReads == Init /\ [][NextReads]_vars

\* C27: get_pin_value, get_adc_value, get_i2c_devices and get_i2c_response
\* never emit an event and leave every store table, the auto-respond flag
\* and the throttle ledger unchanged; get_pin_value returns 0 for an
\* identifier that was never registered or updated.
C27_ReadsFrame ==
  call.op \in ReadOps =>
    /\ call.new = 0
    /\ stdout = call.before.stdout
    /\ received = call.before.received
    /\ _reporters = call.before._reporters
    /\ _pins = call.before._pins
    /\ _adc_values = call.before._adc_values
    /\ _i2c_devices = call.before._i2c_devices
    /\ _i2c_responses = call.before._i2c_responses
    /\ _i2c_auto_respond = call.before._i2c_auto_respond
    /\ _last_pin_emit = call.before._last_pin_emit
    /\ (call.op = "get_pin_value" /\ call.id \notin DOMAIN call.before._pins)
         => call.ret = 0

\* a read of an identifier the store does not know, next to one it knows and
\* with an observer registered
C27_Witness ==
  /\ call.op = "get_pin_value"
  /\ call.id = "25"
  /\ DOMAIN _pins = {"LED"}
  /\ _last_pin_emit # <<>>
  /\ _reporters = <<"collect">>
  /\ call.ret = 0

\* C28: reading a pin with Pin.value() (no argument) changes neither that
\* pin's stored value nor its stored mode in the State Store.
C28_ReadKeepsStore ==
  (call.op = "Pin.value" /\ call.val = None /\ call.had # None) =>
    /\ call.id \in DOMAIN _pins
    /\ _pins[call.id].value = call.had[1].value
    /\ _pins[call.id].mode = call.had[1].mode

\* C29: if update_pin calls for an identifier stop, the most recent
\* pin_register or pin_update event emitted for that identifier carries the
\* identifier's final stored value: in every state the calls may stop in, the
\* last such line on the stream shows the stored value.
PinEvents(id) ==
  {i \in DOMAIN stdout :
     /\ stdout[i].json.type \in {"pin_register", "pin_update"}
     /\ stdout[i].json.pin = id}

Last(S) == CHOOSE i \in S : \A j \in S : j <= i

C29_LastEventIsState ==
  \A id \in DOMAIN _pins :
    PinEvents(id) # {} =>
      stdout[Last(PinEvents(id))].json.value = _pins[id].value
====
